---- MODULE Spec2Model ----
(***************************************************************************)
(* SplitWithMe desktop client: the ledger model (models.py, class Main)    *)
(* and the controller workers (controllers.py) that drive it, run against  *)
(* the remote Ledger Store the client talks to over HTTP.                  *)
(*                                                                         *)
(* Money is an integer number of minor units.  Expense amounts are drawn   *)
(* from multiples of 6 so that monto / len(deudores_ids) is exact for 1,   *)
(* 2 and 3 participants; floating-point rounding is not modelled.          *)
(*                                                                         *)
(* The Ledger Store is a server outside this repository.  Its operators    *)
(* (the Store... definitions) follow the store contract of the design      *)
(* document: a participant share holds a credit_balance/debit_balance      *)
(* pair, PUT .../friends/{id}?amount=a is an adjustment of that share (a   *)
(* non-negative a raises the credit, a negative a raises the debit by -a), *)
(* a person's balances are the sums of that person's shares, and the       *)
(* person's shares are listed oldest expense first.                        *)
(***************************************************************************)
EXTENDS Integers, Sequences, FiniteSets, TLC

VARIABLES store, amigos, gastos, last, pending, faults, payments, edits, threads, idle, active_operations

vars == <<store, amigos, gastos, last, pending, faults, payments, edits, threads, idle, active_operations>>

(***************************************************************************)
(* Bounds and input domains                                                *)
(***************************************************************************)
MaxExpenses == 2

MaxFaults == 1

People == {1, 2, 3}

PayAmounts == {10, 50}

None == 0

ExcKinds == {"ConnectionError", "Timeout", "HTTPError"}

NoFault == [at |-> 0, kind |-> "HTTPError"]

(***************************************************************************)
(* Sequence helpers                                                        *)
(***************************************************************************)
Range(s) == {s[i] : i \in 1..Len(s)}

RECURSIVE SetToSeq(_)
SetToSeq(S) ==
    IF S = {} THEN <<>>
    ELSE LET m == CHOOSE x \in S : \A y \in S : x <= y
         IN <<m>> \o SetToSeq(S \ {m})

RECURSIVE SumSeq(_)
SumSeq(s) == IF s = <<>> THEN 0 ELSE Head(s) + SumSeq(Tail(s))

Min(a, b) == IF a <= b THEN a ELSE b

Abs(x) == IF x < 0 THEN -x ELSE x

(***************************************************************************)
(* Ledger Store                                                            *)
(***************************************************************************)
EmptyStore ==
    [friends |-> People,
     exps    |-> <<>>,
     links   |-> <<>>,
     nextId  |-> 1]

HasExpense(S, e) == e \in DOMAIN S.exps

StoreParticipants(S, e) == [i \in 1..Len(S.links[e]) |-> S.links[e][i].friend]

HasLink(S, e, p) == HasExpense(S, e) /\ p \in Range(StoreParticipants(S, e))

StoreShare(S, e, p) ==
    LET l == CHOOSE x \in Range(S.links[e]) : x.friend = p
    IN [credit_balance |-> l.credit_balance, debit_balance |-> l.debit_balance]

\* createExpense(desc, amount, date): the store assigns the id.
StoreCreateExpense(S, desc, monto, fecha) ==
    [S EXCEPT !.exps = (S.nextId :> [description |-> desc, amount |-> monto, date |-> fecha]) @@ @,
              !.links = (S.nextId :> <<>>) @@ @,
              !.nextId = @ + 1]

\* deleteExpense(id): the expense and its shares go.
StoreDeleteExpense(S, e) ==
    [S EXCEPT !.exps = [x \in (DOMAIN S.exps) \ {e} |-> S.exps[x]],
              !.links = [x \in (DOMAIN S.links) \ {e} |-> S.links[x]]]

\* addParticipant(expenseId, personId): a fresh share with zero balances.
StoreAddParticipantOk(S, e, p) ==
    HasExpense(S, e) /\ p \in S.friends /\ ~HasLink(S, e, p)

StoreAddParticipant(S, e, p) ==
    [S EXCEPT !.links[e] =
        Append(@, [friend |-> p, credit_balance |-> 0, debit_balance |-> 0])]

\* removeParticipant(expenseId, personId)
StoreRemoveParticipant(S, e, p) ==
    [S EXCEPT !.links[e] = SelectSeq(@, LAMBDA l : l.friend # p)]

\* setParticipantShare(expenseId, personId, amount): an adjustment of the share.
StoreAdjust(l, amount) ==
    IF amount >= 0
    THEN [l EXCEPT !.credit_balance = @ + amount]
    ELSE [l EXCEPT !.debit_balance = @ - amount]

StoreSetShare(S, e, p, amount) ==
    [S EXCEPT !.links[e] =
        [i \in 1..Len(@) |-> IF @[i].friend = p THEN StoreAdjust(@[i], amount) ELSE @[i]]]

\* getPerson(id): the balances are the sums of the person's shares.
StorePersonShares(S, p) ==
    LET ids == SetToSeq({e \in DOMAIN S.exps : HasLink(S, e, p)})
    IN [i \in 1..Len(ids) |->
          [id |-> ids[i],
           credit_balance |-> StoreShare(S, ids[i], p).credit_balance,
           debit_balance  |-> StoreShare(S, ids[i], p).debit_balance]]

\* The names of the people the store holds.
NombreDe(p) == CASE p = 1 -> "Ana" [] p = 2 -> "Luis" [] OTHER -> "Eva"

StorePerson(S, p) ==
    LET sh == StorePersonShares(S, p)
    IN [id |-> p, name |-> NombreDe(p),
        credit_balance |-> SumSeq([i \in 1..Len(sh) |-> sh[i].credit_balance]),
        debit_balance  |-> SumSeq([i \in 1..Len(sh) |-> sh[i].debit_balance])]

\* listPeople()
StoreListPeople(S) ==
    LET ids == SetToSeq(S.friends)
    IN [i \in 1..Len(ids) |-> StorePerson(S, ids[i])]

\* deletePerson(id): Conflict while the balance is not zero.
StoreDeletePersonOk(S, p) ==
    p \in S.friends /\ StorePerson(S, p).credit_balance = StorePerson(S, p).debit_balance

StoreDeletePerson(S, p) ==
    [S EXCEPT !.friends = @ \ {p},
              !.links = [e \in DOMAIN S.links |-> SelectSeq(S.links[e], LAMBDA l : l.friend # p)]]

(***************************************************************************)
(* Store calls as data: an operation plans its calls, a runner issues them *)
(***************************************************************************)
CallAdd(e, p) == [op |-> "addParticipant", e |-> e, p |-> p, amount |-> 0]

CallRemove(e, p) == [op |-> "removeParticipant", e |-> e, p |-> p, amount |-> 0]

CallSet(e, p, a) == [op |-> "setParticipantShare", e |-> e, p |-> p, amount |-> a]

\* Does the store accept the call in state S?
CallAccepted(S, c) ==
    CASE c.op = "addParticipant"      -> StoreAddParticipantOk(S, c.e, c.p)
      [] c.op = "removeParticipant"   -> HasLink(S, c.e, c.p)
      [] c.op = "setParticipantShare" -> HasLink(S, c.e, c.p)

CallApply(S, c) ==
    CASE c.op = "addParticipant"      -> StoreAddParticipant(S, c.e, c.p)
      [] c.op = "removeParticipant"   -> StoreRemoveParticipant(S, c.e, c.p)
      [] c.op = "setParticipantShare" -> StoreSetShare(S, c.e, c.p, c.amount)

\* The k-th call of an operation fails when the fault hits it (connection
\* error, timeout or an HTTP error status) or when the store rejects it.
CallFails(S, c, k, flt) == flt.at = k \/ ~CallAccepted(S, c)

CallExc(S, c, k, flt) == IF flt.at = k THEN flt.kind ELSE "HTTPError"

\* Issue the calls of plan in order, numbered from k; stop at the first that fails.
RECURSIVE RunAbort(_, _, _, _, _)
RunAbort(S, plan, k, flt, log) ==
    IF plan = <<>>
    THEN [store |-> S, failed |-> 0, exc |-> "", call |-> CallAdd(0, 0), log |-> log]
    ELSE IF CallFails(S, Head(plan), k, flt)
         THEN [store |-> S, failed |-> k, exc |-> CallExc(S, Head(plan), k, flt),
               call |-> Head(plan), log |-> Append(log, Head(plan))]
         ELSE RunAbort(CallApply(S, Head(plan)), Tail(plan), k + 1, flt,
                       Append(log, Head(plan)))

(***************************************************************************)
(* Wire forms (to_dict / from_dict)                                        *)
(***************************************************************************)
\* dict.get(key, default)
Get(data, key, default) == IF key \in DOMAIN data THEN data[key] ELSE default

\* Amigo built from the store's person record.
amigo_from_dict(data) ==
    [id |-> Get(data, "id", None), nombre |-> Get(data, "name", None),
     credit_balance |-> Get(data, "credit_balance", 0),
     debit_balance |-> Get(data, "debit_balance", 0)]

\* Amigo.to_dict: the wire form of an Amigo.
to_dict(a) == [id |-> a.id, name |-> a.nombre]

\* Gasto built from the store's expense record; pagador_id is not on the wire.
gasto_from_dict(data) ==
    [id |-> data.id, descripcion |-> data.description, monto |-> data.amount,
     fecha |-> data.date, pagador_id |-> None, deudores_ids |-> <<>>,
     num_friends |-> Get(data, "num_friends", 1)]

\* Gasto.split
split(g) == IF g.num_friends > 0 THEN g.monto \div g.num_friends ELSE 0

StoreExpenseWire(S, e) ==
    [id |-> e, description |-> S.exps[e].description, amount |-> S.exps[e].amount,
     date |-> S.exps[e].date, num_friends |-> Len(S.links[e])]

saldo(a) == a.credit_balance - a.debit_balance

(***************************************************************************)
(* Main.add_gasto                                                          *)
(***************************************************************************)
Today == "t0"

\* Step 3: the payer's credit.
CreditoPagadorAll(monto, pagador_id, deudores_ids) == monto

CreditoPagadorOthers(monto, pagador_id, deudores_ids) ==
    monto - monto \div Len(deudores_ids)

CreditoPagador(monto, pagador_id, deudores_ids) ==
    IF pagador_id \in Range(deudores_ids)
    THEN LET monto_por_persona == monto \div Len(deudores_ids)
         IN monto - monto_por_persona
    ELSE monto

\* Step 4: the payer's share link (only if not a participant) and credit.
PlanPagador(e, monto, pagador_id, deudores_ids) ==
    (IF pagador_id \notin Range(deudores_ids) THEN <<CallAdd(e, pagador_id)>> ELSE <<>>)
    \o <<CallSet(e, pagador_id, CreditoPagador(monto, pagador_id, deudores_ids))>>

\* Step 5: the debtors' shares, written as negative amounts.
PlanDeudoresTodos(e, monto, pagador_id, deudores_ids) ==
    [i \in 1..Len(deudores_ids) |->
        CallSet(e, deudores_ids[i], -(monto \div Len(deudores_ids)))]

PlanDeudores(e, monto, pagador_id, deudores_ids) ==
    IF pagador_id \notin Range(deudores_ids)
    THEN LET monto_por_deudor == -(monto \div Len(deudores_ids))
         IN [i \in 1..Len(deudores_ids) |-> CallSet(e, deudores_ids[i], monto_por_deudor)]
    ELSE LET monto_por_persona == monto \div Len(deudores_ids)
             otros == SelectSeq(deudores_ids, LAMBDA d : d # pagador_id)
         IN [i \in 1..Len(otros) |-> CallSet(e, otros[i], -monto_por_persona)]

\* Step 2: one share link per participant.
PlanParticipantes(e, deudores_ids) ==
    [i \in 1..Len(deudores_ids) |-> CallAdd(e, deudores_ids[i])]

AddGastoPlan(e, monto, pagador_id, deudores_ids) ==
    PlanParticipantes(e, deudores_ids)
    \o PlanPagador(e, monto, pagador_id, deudores_ids)
    \o PlanDeudores(e, monto, pagador_id, deudores_ids)

\* The inner handlers of steps 2, 4 and 5 catch every requests exception and
\* raise a plain Exception in its place.
InnerReraise(exc) == "Exception"

\* The outer handlers catch ConnectionError, Timeout and RequestException.
OuterCatches(exc) == exc \in ExcKinds

\* The message of the Exception the outer handlers raise.
OuterMessage(exc) ==
    CASE exc = "ConnectionError" -> "MsgConnection"
      [] exc = "Timeout"         -> "MsgTimeout"
      [] OTHER                   -> "MsgRemote"

\* The exception leaving the try body of add_gasto: call 1 is POST /expenses/,
\* the calls of the plan follow.
AddGastoEscapes(S1, r, flt) ==
    IF flt.at = 1 THEN flt.kind ELSE InnerReraise(r.exc)

\* The new Gasto joins self.gastos on the last line of the try body only.
AppendGastoAlways(G, gasto, failed) == Append(G, gasto)

AppendGasto(G, gasto, failed) == IF failed = 0 THEN Append(G, gasto) ELSE G

\* In the result, exc is the requests exception of the failing call and error
\* the message of the Exception that leaves add_gasto.
add_gasto(S, G, desc, monto, pagador_id, deudores_ids, flt, rollbackOk) ==
    LET postFails == flt.at = 1
        gasto_id  == IF postFails THEN None ELSE S.nextId
        S1   == IF postFails THEN S ELSE StoreCreateExpense(S, desc, monto, Today)
        r    == IF postFails
                THEN [store |-> S, failed |-> 1, exc |-> flt.kind,
                      call |-> CallAdd(0, 0), log |-> <<>>]
                ELSE RunAbort(S1, AddGastoPlan(gasto_id, monto, pagador_id, deudores_ids),
                              2, flt, <<>>)
        exc  == AddGastoEscapes(S1, r, flt)
        rollback == r.failed # 0 /\ OuterCatches(exc) /\ gasto_id # None
        S2   == IF rollback /\ rollbackOk THEN StoreDeleteExpense(r.store, gasto_id)
                ELSE r.store
        gasto == [gasto_from_dict([id |-> S.nextId, description |-> desc,
                                   amount |-> monto, date |-> Today,
                                   num_friends |-> 0]) EXCEPT
                     !.pagador_id = pagador_id]
    IN IF r.failed = 0
       THEN [store |-> r.store, gastos |-> AppendGasto(G, gasto, r.failed), ok |-> TRUE,
             error |-> "", id |-> gasto_id, rollback |-> FALSE, failed |-> 0,
             log |-> r.log, exc |-> ""]
       ELSE [store |-> S2, gastos |-> AppendGasto(G, gasto, r.failed), ok |-> FALSE,
             error |-> IF OuterCatches(exc) THEN OuterMessage(exc) ELSE "MsgStep",
             id |-> gasto_id, rollback |-> rollback, failed |-> r.failed,
             log |-> r.log, exc |-> r.exc]

(***************************************************************************)
(* Main.cargar_amigos / Main.cargar_gastos                                 *)
(***************************************************************************)
cargar_amigos(S) == [i \in 1..Len(StoreListPeople(S)) |-> amigo_from_dict(StoreListPeople(S)[i])]

\* The payer is taken to be the first participant whose share has credit > 0:
\* GET each participant's share, numbered from k; a failing GET is skipped.
RECURSIVE InferPagador(_, _, _, _, _)
InferPagador(S, e, ids, k, flt) ==
    IF ids = <<>> THEN [pagador_id |-> None, k |-> k]
    ELSE IF flt.at = k THEN InferPagador(S, e, Tail(ids), k + 1, flt)
    ELSE IF StoreShare(S, e, Head(ids)).credit_balance > 0
         THEN [pagador_id |-> Head(ids), k |-> k + 1]
         ELSE InferPagador(S, e, Tail(ids), k + 1, flt)

CargarGastoUltimo(S, e, k, flt) ==
    LET ids == StoreParticipants(S, e)
        J == {i \in 1..Len(ids) : StoreShare(S, e, ids[i]).credit_balance > 0}
    IN [gasto |-> [gasto_from_dict(StoreExpenseWire(S, e)) EXCEPT
                      !.num_friends = Len(ids),
                      !.pagador_id = IF J = {} THEN None
                                     ELSE ids[CHOOSE i \in J : \A j \in J : i >= j]],
        k |-> InferPagador(S, e, ids, k + 1, flt).k]

\* One expense of GET /expenses/ with its participants (call k, answered) and
\* its payer (calls k + 1 onwards).
CargarGasto(S, e, k, flt) ==
    LET participantes_ids == StoreParticipants(S, e)
        p == InferPagador(S, e, participantes_ids, k + 1, flt)
    IN [gasto |-> [gasto_from_dict(StoreExpenseWire(S, e)) EXCEPT
                      !.num_friends = Len(participantes_ids),
                      !.pagador_id = p.pagador_id],
        k |-> p.k]

\* The loop over the expenses of GET /expenses/.  obtener_participantes_gasto
\* turns the failure of its GET into a plain Exception, which neither the
\* handler around the enrichment (except RequestException: pass) nor the outer
\* handlers of cargar_gastos catch: the loop ends there.
RECURSIVE CargarGastosWalk(_, _, _, _, _)
CargarGastosWalk(S, ids, k, flt, G) ==
    IF ids = <<>> THEN [gastos |-> G, failed |-> 0, calls |-> k - 1]
    ELSE IF flt.at = k THEN [gastos |-> G, failed |-> k, calls |-> k]
    ELSE CargarGastosWalk(S, Tail(ids), CargarGasto(S, Head(ids), k, flt).k, flt,
                          Append(G, CargarGasto(S, Head(ids), k, flt).gasto))

\* Main.cargar_gastos once GET /expenses/ was answered: self.gastos = [] and
\* the loop, whose calls are numbered from k.
cargar_gastos(S, k, flt) == CargarGastosWalk(S, SetToSeq(DOMAIN S.exps), k, flt, <<>>)

(***************************************************************************)
(* Main.pagar_saldo                                                        *)
(***************************************************************************)
\* deuda = debito - credito of one fetched share.
DeudaGross(g) == g.debit_balance

Deuda(g) == g.debit_balance - g.credit_balance

\* pago = min(importe_restante, deuda)
PagoAll(importe_restante, deuda) == importe_restante

Pago(importe_restante, deuda) == Min(importe_restante, deuda)

\* The shares are walked in the order the store returned them.
ReverseOrder(gastos_amigo) ==
    [i \in 1..Len(gastos_amigo) |-> gastos_amigo[Len(gastos_amigo) + 1 - i]]

PagoOrder(gastos_amigo) == gastos_amigo

\* requests.put raises on a connection error or a timeout; the response
\* status is not looked at.
PutRaises(k, flt) == flt.at = k /\ flt.kind \in {"ConnectionError", "Timeout"}

PutRejected(S, c, k, flt) == (flt.at = k /\ flt.kind = "HTTPError") \/ ~CallAccepted(S, c)

\* Step 2: the loop over gastos_amigo; k numbers the next store call.
RECURSIVE PayWalk(_, _, _, _, _, _, _, _)
PayWalk(S, amigo_id, shares, importe_restante, k, flt, log, rejected) ==
    IF shares = <<>> \/ importe_restante <= 0
    THEN [store |-> S, restante |-> importe_restante, exc |-> "", k |-> k,
          log |-> log, rejected |-> rejected]
    ELSE LET deuda == Deuda(Head(shares))
             pago  == Pago(importe_restante, deuda)
             c     == CallSet(Head(shares).id, amigo_id, pago)
         IN IF deuda > 0
            THEN IF PutRaises(k, flt)
                 THEN [store |-> S, restante |-> importe_restante, exc |-> flt.kind,
                       k |-> k, log |-> Append(log, c), rejected |-> rejected]
                 ELSE IF PutRejected(S, c, k, flt)
                      THEN PayWalk(S, amigo_id, Tail(shares), importe_restante - pago,
                                   k + 1, flt, Append(log, c), rejected + 1)
                      ELSE PayWalk(CallApply(S, c), amigo_id, Tail(shares),
                                   importe_restante - pago, k + 1, flt, Append(log, c),
                                   rejected)
            ELSE PayWalk(S, amigo_id, Tail(shares), importe_restante, k, flt, log, rejected)

\* Call 1 is GET /friends/{id}/expenses, the PUTs follow, the last call is
\* the GET /friends/ of cargar_amigos.
pagar_saldo(S, A, amigo_id, importe, flt) ==
    LET getFails == flt.at = 1 \/ amigo_id \notin S.friends
        gastos_amigo == IF getFails THEN <<>> ELSE StorePersonShares(S, amigo_id)
        w == PayWalk(S, amigo_id, PagoOrder(gastos_amigo), importe, 2, flt, <<>>, 0)
        loadFails == flt.at = w.k
    IN IF getFails
       THEN [store |-> S, amigos |-> A, ok |-> FALSE,
             error |-> OuterMessage(IF flt.at = 1 THEN flt.kind ELSE "HTTPError"),
             failed |-> 1, shares |-> <<>>, log |-> <<>>, restante |-> importe,
             rejected |-> 0]
       ELSE IF w.exc # ""
            THEN [store |-> w.store, amigos |-> A, ok |-> FALSE,
                  error |-> OuterMessage(w.exc), failed |-> w.k,
                  shares |-> gastos_amigo, log |-> w.log, restante |-> w.restante,
                  rejected |-> w.rejected]
            ELSE [store |-> w.store,
                  amigos |-> IF loadFails THEN A ELSE cargar_amigos(w.store),
                  ok |-> ~loadFails,
                  error |-> IF loadFails THEN "MsgLoad" ELSE "",
                  failed |-> IF flt.at # 0 /\ flt.at <= w.k THEN flt.at ELSE 0,
                  shares |-> gastos_amigo, log |-> w.log, restante |-> w.restante,
                  rejected |-> w.rejected]

(***************************************************************************)
(* Main.obtener_participantes_gasto                                        *)
(***************************************************************************)
CallListParticipantsBorra(e) == [op |-> "removeParticipant", e |-> e, p |-> 0, amount |-> 0]

CallListParticipants(e) == [op |-> "listParticipants", e |-> e, p |-> 0, amount |-> 0]

CallUpdateExpense(e) == [op |-> "updateExpense", e |-> e, p |-> 0, amount |-> 0]

\* GET /expenses/{id}/friends is call k of the operation.
obtener_participantes_gasto(S, gasto_id, k, flt) ==
    IF flt.at = k \/ ~HasExpense(S, gasto_id)
    THEN [ok |-> FALSE, ids |-> <<>>,
          error |-> IF flt.at = k THEN OuterMessage(flt.kind) ELSE "MsgRemote",
          log |-> <<CallListParticipants(gasto_id)>>]
    ELSE [ok |-> TRUE, ids |-> StoreParticipants(S, gasto_id), error |-> "",
          log |-> <<CallListParticipants(gasto_id)>>]

(***************************************************************************)
(* Main.update_gasto                                                       *)
(***************************************************************************)
\* updateExpense(id, fields)
StoreUpdateExpense(S, e, desc, monto, fecha) ==
    [S EXCEPT !.exps[e] = [description |-> desc, amount |-> monto, date |-> fecha]]

\* Issue the calls of plan in order, numbered from k; a call that fails is
\* logged and skipped (except RequestException: continue).
RECURSIVE RunSkip(_, _, _, _, _, _)
RunSkip(S, plan, k, flt, log, skipped) ==
    IF plan = <<>>
    THEN [store |-> S, k |-> k, log |-> log, skipped |-> skipped]
    ELSE IF CallFails(S, Head(plan), k, flt)
         THEN RunSkip(S, Tail(plan), k + 1, flt, Append(log, Head(plan)), skipped + 1)
         ELSE RunSkip(CallApply(S, Head(plan)), Tail(plan), k + 1, flt,
                      Append(log, Head(plan)), skipped)

PlanDiffTodos(gasto_id, participantes_actuales, nuevos_participantes) ==
    [i \in 1..Len(participantes_actuales) |-> CallRemove(gasto_id, participantes_actuales[i])]
    \o [i \in 1..Len(nuevos_participantes) |-> CallAdd(gasto_id, nuevos_participantes[i])]

\* DELETE the participants that left, then POST the ones that joined.
PlanDiff(gasto_id, participantes_actuales, nuevos_participantes) ==
    LET quitar == SelectSeq(participantes_actuales,
                            LAMBDA p : p \notin Range(nuevos_participantes))
        anadir == SelectSeq(nuevos_participantes,
                            LAMBDA p : p \notin Range(participantes_actuales))
    IN [i \in 1..Len(quitar) |-> CallRemove(gasto_id, quitar[i])]
       \o [i \in 1..Len(anadir) |-> CallAdd(gasto_id, anadir[i])]

\* No payer known: GET each new participant's share, numbered from k; the
\* first whose credit is > 0 is the payer, a failing GET is skipped.
RECURSIVE BuscarPagador(_, _, _, _, _, _)
BuscarPagador(S, gasto_id, ids, k, flt, skipped) ==
    IF ids = <<>>
    THEN [pagador_id |-> None, k |-> k, skipped |-> skipped]
    ELSE IF flt.at = k \/ ~HasLink(S, gasto_id, Head(ids))
         THEN BuscarPagador(S, gasto_id, Tail(ids), k + 1, flt, skipped + 1)
         ELSE IF StoreShare(S, gasto_id, Head(ids)).credit_balance > 0
              THEN [pagador_id |-> Head(ids), k |-> k + 1, skipped |-> skipped]
              ELSE BuscarPagador(S, gasto_id, Tail(ids), k + 1, flt, skipped)

\* nuevo_credito of one participant of the new list.
NuevoCredito(participante_id, pagador_id, monto_nuevo, nuevos_participantes) ==
    IF participante_id = pagador_id
    THEN IF pagador_id \in Range(nuevos_participantes)
         THEN monto_nuevo - (monto_nuevo \div Len(nuevos_participantes))
         ELSE monto_nuevo
    ELSE 0

PlanRecalculo(gasto_id, pagador_id, monto_nuevo, nuevos_participantes) ==
    [i \in 1..Len(nuevos_participantes) |->
        CallSet(gasto_id, nuevos_participantes[i],
                NuevoCredito(nuevos_participantes[i], pagador_id, monto_nuevo,
                             nuevos_participantes))]

\* The entry of self.gastos with the given id (None when there is none).
GastoIndexPrimero(G, gasto_id) == IF G = <<>> THEN 0 ELSE 1

GastoIndex(G, gasto_id) ==
    IF \E i \in 1..Len(G) : G[i].id = gasto_id
    THEN CHOOSE i \in 1..Len(G) : G[i].id = gasto_id
    ELSE 0

\* Main.update_gasto.  Call 1 is GET /expenses/{id}/friends, call 2 is
\* PUT /expenses/{id}; the DELETEs, POSTs, GETs and PUTs that follow are
\* numbered from 3.  nuevos_datos.pagador_id = None stands for a payload
\* without that key.
update_gasto(S, G, gasto_id, nuevos_datos, flt) ==
    LET idx == GastoIndex(G, gasto_id)
        fallo(err, k, S1, G1, log) ==
            [store |-> S1, gastos |-> G1, ok |-> FALSE, error |-> err, failed |-> k,
             log |-> log, skipped |-> 0, pagador_id |-> None, calls |-> k]
    IN
    IF idx = 0 THEN fallo("MsgExpenseNotFound", 0, S, G, <<>>)
    ELSE IF flt.at = 1 \/ ~HasExpense(S, gasto_id)
    THEN fallo(IF flt.at = 1 THEN OuterMessage(flt.kind) ELSE "MsgRemote", 1, S, G,
               <<CallListParticipants(gasto_id)>>)
    ELSE IF flt.at = 2
    THEN fallo(OuterMessage(flt.kind), 2, S, G,
               <<CallListParticipants(gasto_id), CallUpdateExpense(gasto_id)>>)
    ELSE
    LET gasto_actual == G[idx]
        monto_anterior == gasto_actual.monto
        monto_nuevo == nuevos_datos.monto
        participantes_actuales == StoreParticipants(S, gasto_id)
        nuevos_participantes == nuevos_datos.participantes_ids
        cambian == Range(participantes_actuales) # Range(nuevos_participantes)
        recalculo == monto_anterior # monto_nuevo \/ cambian
        S2 == StoreUpdateExpense(S, gasto_id, nuevos_datos.descripcion, monto_nuevo,
                                 nuevos_datos.fecha)
        d  == RunSkip(S2, IF cambian
                          THEN PlanDiff(gasto_id, participantes_actuales, nuevos_participantes)
                          ELSE <<>>, 3, flt,
                      <<CallListParticipants(gasto_id), CallUpdateExpense(gasto_id)>>, 0)
        dado == IF nuevos_datos.pagador_id # None THEN nuevos_datos.pagador_id
                ELSE gasto_actual.pagador_id
        b  == IF dado = None
              THEN BuscarPagador(d.store, gasto_id, nuevos_participantes, d.k, flt, d.skipped)
              ELSE [pagador_id |-> dado, k |-> d.k, skipped |-> d.skipped]
        r  == RunSkip(d.store, PlanRecalculo(gasto_id, b.pagador_id, monto_nuevo,
                                             nuevos_participantes),
                      b.k, flt, d.log, b.skipped)
        basicos == [gasto_actual EXCEPT !.descripcion = nuevos_datos.descripcion,
                                        !.monto = monto_nuevo,
                                        !.fecha = nuevos_datos.fecha]
    IN
    IF recalculo
    THEN [store |-> r.store,
          gastos |-> [G EXCEPT ![idx] = [basicos EXCEPT !.pagador_id = b.pagador_id,
                                                         !.deudores_ids = nuevos_participantes]],
          ok |-> TRUE, error |-> "", failed |-> 0, log |-> r.log, skipped |-> r.skipped,
          pagador_id |-> b.pagador_id, calls |-> r.k - 1]
    \* pagador_id is bound only inside the recompute branch: the assignment
    \* gasto_actual.pagador_id = pagador_id raises UnboundLocalError.
    ELSE [store |-> d.store, gastos |-> [G EXCEPT ![idx] = basicos],
          ok |-> FALSE, error |-> "MsgUnboundLocal", failed |-> 0, log |-> d.log,
          skipped |-> d.skipped, pagador_id |-> None, calls |-> d.k - 1]

(***************************************************************************)
(* Main.obtener_amigo, Main.eliminar_amigo and the delete-friend worker    *)
(***************************************************************************)
CallGetPerson(p) == [op |-> "getPerson", e |-> 0, p |-> p, amount |-> 0]

CallDeletePerson(p) == [op |-> "deletePerson", e |-> 0, p |-> p, amount |-> 0]

\* self.amigos = [a for a in self.amigos if a.id != amigo_id]
QuitarAmigo(A, amigo_id) == SelectSeq(A, LAMBDA a : a.id # amigo_id)

\* Main.eliminar_amigo: DELETE /friends/{id} is call k of the operation.
eliminar_amigo_sin_estado(S, A, amigo_id, k, flt) ==
    IF flt.at = k
    THEN [store |-> S, amigos |-> A, ok |-> FALSE, error |-> OuterMessage(flt.kind)]
    ELSE [store |-> IF StoreDeletePersonOk(S, amigo_id)
                    THEN StoreDeletePerson(S, amigo_id) ELSE S,
          amigos |-> QuitarAmigo(A, amigo_id), ok |-> TRUE, error |-> ""]

eliminar_amigo(S, A, amigo_id, k, flt) ==
    IF flt.at = k \/ ~StoreDeletePersonOk(S, amigo_id)
    THEN [store |-> S, amigos |-> A, ok |-> FALSE,
          error |-> IF flt.at = k THEN OuterMessage(flt.kind)
                    ELSE IF amigo_id \in S.friends THEN "MsgConflict" ELSE "MsgNotFound"]
    ELSE [store |-> StoreDeletePerson(S, amigo_id), amigos |-> QuitarAmigo(A, amigo_id),
          ok |-> TRUE, error |-> ""]

\* saldo_es_cero = abs(saldo) < 0.01, the balances being whole units here.
SaldoEsCero(s) == Abs(s) * 100 < 1

\* The balance the worker decides on: the copy of self.amigos (if any) ...
SaldoLocal(S, A, amigo_id) ==
    IF \E i \in 1..Len(A) : A[i].id = amigo_id
    THEN saldo(A[CHOOSE i \in 1..Len(A) : A[i].id = amigo_id])
    ELSE 0

\* ... or the person fetched from the store with obtener_amigo.
SaldoParaEliminar(S, A, amigo_id) == saldo(amigo_from_dict(StorePerson(S, amigo_id)))

\* MainController.eliminar_amigo.eliminar_amigo_async: call 1 is
\* GET /friends/{id}, call 2 is DELETE /friends/{id}.
eliminar_amigo_async(S, A, amigo_id, flt) ==
    IF flt.at = 1 \/ amigo_id \notin S.friends
    THEN [store |-> S, amigos |-> A, ok |-> FALSE,
          error |-> IF flt.at = 1 THEN OuterMessage(flt.kind) ELSE "MsgRemote",
          failed |-> 1, log |-> <<CallGetPerson(amigo_id)>>, saldo |-> 0]
    ELSE IF SaldoEsCero(SaldoParaEliminar(S, A, amigo_id))
         THEN LET r == eliminar_amigo(S, A, amigo_id, 2, flt)
              IN [store |-> r.store, amigos |-> r.amigos, ok |-> r.ok, error |-> r.error,
                  failed |-> IF r.ok THEN 0 ELSE 2,
                  log |-> <<CallGetPerson(amigo_id), CallDeletePerson(amigo_id)>>,
                  saldo |-> SaldoParaEliminar(S, A, amigo_id)]
         ELSE [store |-> S, amigos |-> A, ok |-> FALSE, error |-> "MsgPendingBalance",
               failed |-> 0, log |-> <<CallGetPerson(amigo_id)>>,
               saldo |-> SaldoParaEliminar(S, A, amigo_id)]

(***************************************************************************)
(* MainController.borrar_todos_amigos                                      *)
(***************************************************************************)
\* The loop of eliminar_todos_amigos: Main.eliminar_amigo for every id, call
\* k being the DELETE of the head; an exception is appended to errores.
\* The ids still to be tried after one attempt: the except clause swallows
\* the exception and the for loop goes on.
SiguientesAbort(ids, ok) == IF ok THEN Tail(ids) ELSE <<>>

Siguientes(ids, ok) == Tail(ids)

RECURSIVE BorrarAmigosWalk(_, _, _, _, _, _, _, _)
BorrarAmigosWalk(S, A, ids, k, flt, eliminados, errores, log) ==
    IF ids = <<>>
    THEN [store |-> S, amigos |-> A, eliminados |-> eliminados, errores |-> errores,
          log |-> log]
    ELSE LET r == eliminar_amigo(S, A, Head(ids), k, flt)
         IN BorrarAmigosWalk(r.store, r.amigos, Siguientes(ids, r.ok), k + 1, flt,
               IF r.ok THEN eliminados + 1 ELSE eliminados,
               IF r.ok THEN errores
               ELSE Append(errores, [id |-> Head(ids), error |-> r.error]),
               Append(log, CallDeletePerson(Head(ids))))

eliminar_todos_amigos(S, A, flt) ==
    LET amigos_ids == [i \in 1..Len(A) |-> A[i].id]
        w == BorrarAmigosWalk(S, A, amigos_ids, 1, flt, 0, <<>>, <<>>)
    IN [store |-> w.store, amigos |-> w.amigos, eliminados |-> w.eliminados,
        total |-> Len(amigos_ids), errores |-> w.errores, log |-> w.log]

(***************************************************************************)
(* Main.eliminar_gasto and MainController.borrar_todos_gastos              *)
(***************************************************************************)
CallDeleteExpense(e) == [op |-> "deleteExpense", e |-> e, p |-> 0, amount |-> 0]

\* lista_aux: the expenses whose id differs from gasto_id.
QuitarGastoNinguno(G, gasto_id) == G

QuitarGasto(G, gasto_id) == SelectSeq(G, LAMBDA g : g.id # gasto_id)

\* Main.eliminar_gasto: DELETE /expenses/{id} is call k of the operation.
eliminar_gasto(S, G, gasto_id, k, flt) ==
    IF flt.at = k \/ ~HasExpense(S, gasto_id)
    THEN [store |-> S, gastos |-> G, ok |-> FALSE,
          error |-> IF flt.at = k THEN OuterMessage(flt.kind) ELSE "MsgNotFound"]
    ELSE [store |-> StoreDeleteExpense(S, gasto_id), gastos |-> QuitarGasto(G, gasto_id),
          ok |-> TRUE, error |-> ""]

\* The loop of eliminar_todos_gastos: no handler around Main.eliminar_gasto,
\* the first exception leaves the loop and the worker.
RECURSIVE BorrarGastosWalk(_, _, _, _, _, _)
BorrarGastosWalk(S, G, ids, k, flt, log) ==
    IF ids = <<>>
    THEN [store |-> S, gastos |-> G, ok |-> TRUE, error |-> "", failed |-> 0, log |-> log]
    ELSE LET r == eliminar_gasto(S, G, Head(ids), k, flt)
         IN IF r.ok
            THEN BorrarGastosWalk(r.store, r.gastos, Tail(ids), k + 1, flt,
                                  Append(log, CallDeleteExpense(Head(ids))))
            ELSE [store |-> r.store, gastos |-> r.gastos, ok |-> FALSE, error |-> r.error,
                  failed |-> k, log |-> Append(log, CallDeleteExpense(Head(ids)))]

eliminar_todos_gastos(S, G, flt) ==
    LET gastos_ids == [i \in 1..Len(G) |-> G[i].id]
    IN IF gastos_ids = <<>>
       THEN [store |-> S, gastos |-> G, ok |-> FALSE, error |-> "MsgNothingToDelete",
             failed |-> 0, log |-> <<>>, cantidad |-> 0]
       ELSE LET w == BorrarGastosWalk(S, G, gastos_ids, 1, flt, <<>>)
            IN [store |-> w.store, gastos |-> w.gastos, ok |-> w.ok, error |-> w.error,
                failed |-> w.failed, log |-> w.log,
                cantidad |-> IF w.ok THEN Len(gastos_ids) ELSE 0]

(***************************************************************************)
(* Input validation of the controller                                      *)
(***************************************************************************)
\* float(s) of the texts a user types: ok is FALSE where float raises ValueError.
ParseFloat(s) ==
    CASE s = "12"  -> [ok |-> TRUE, value |-> 12]
      [] s = "24"  -> [ok |-> TRUE, value |-> 24]
      [] s = "10"  -> [ok |-> TRUE, value |-> 10]
      [] s = "50"  -> [ok |-> TRUE, value |-> 50]
      [] s = "0"   -> [ok |-> TRUE, value |-> 0]
      [] s = "-6"  -> [ok |-> TRUE, value |-> -6]
      [] OTHER     -> [ok |-> FALSE, value |-> 0]

\* s.strip() of the same texts.
Strip(s) == IF s = " " THEN "" ELSE s

\* _realizar_add_gasto on the main thread: "" when the data may go on.
ValidarGastoNada(monto_str, deudores_ids) == ""

ValidarGasto(monto_str, deudores_ids) ==
    IF ~ParseFloat(monto_str).ok THEN "MsgInvalidNumber"
    ELSE IF ParseFloat(monto_str).value <= 0 THEN "MsgAmountPositive"
    ELSE IF deudores_ids = <<>> THEN "MsgNoParticipants"
    ELSE ""

\* crear_gasto on the worker repeats the checks before Main.add_gasto.
crear_gasto_valida(monto_str, deudores_ids) ==
    IF ~ParseFloat(monto_str).ok THEN "MsgInvalidNumber"
    ELSE IF ParseFloat(monto_str).value <= 0 THEN "MsgAmountPositive"
    ELSE IF deudores_ids = <<>> THEN "MsgNoParticipants"
    ELSE ""

\* pagar_saldo on the main thread.
ValidarPagoNada(importe_str) == ""

ValidarPago(importe_str) ==
    IF Strip(importe_str) = "" THEN "MsgEnterAmount"
    ELSE IF ~ParseFloat(importe_str).ok THEN "MsgInvalidNumber"
    ELSE IF ParseFloat(importe_str).value <= 0 THEN "MsgAmountPositive"
    ELSE ""

\* procesar_pago on the worker repeats the checks before Main.pagar_saldo.
procesar_pago_valida(importe_str) ==
    IF Strip(importe_str) = "" THEN "MsgEnterAmount"
    ELSE IF ~ParseFloat(importe_str).ok THEN "MsgInvalidNumber"
    ELSE IF ParseFloat(importe_str).value <= 0 THEN "MsgAmountPositive"
    ELSE ""

(***************************************************************************)
(* State                                                                   *)
(***************************************************************************)
NoOp ==
    [op |-> "init", ok |-> TRUE, error |-> "", id |-> None, monto |-> 0,
     pagador_id |-> None, deudores_ids |-> <<>>, amigo_id |-> None,
     rollback |-> FALSE, rollbackOk |-> TRUE, failed |-> 0, log |-> <<>>,
     shares |-> <<>>, restante |-> 0, rejected |-> 0, saldo |-> 0,
     descripcion |-> "", fecha |-> "", eliminados |-> 0, total |-> 0,
     errores |-> <<>>, worker |-> TRUE, exc |-> ""]

\* A fault is injected only while the budget lasts.
Inject(flt) ==
    /\ flt.at # 0 => faults < MaxFaults
    /\ faults' = faults + (IF flt.at # 0 THEN 1 ELSE 0)

AmigoIds == {amigos[i].id : i \in 1..Len(amigos)}

GastoIds == {gastos[i].id : i \in 1..Len(gastos)}

\* MainController.iniciar has loaded the friends the store already holds.
Init ==
    /\ store = EmptyStore
    /\ amigos = cargar_amigos(EmptyStore)
    /\ gastos = <<>>
    /\ last = NoOp
    /\ pending = FALSE
    /\ faults = 0
    /\ payments = 0
    /\ edits = 0
    /\ threads = <<>>
    /\ idle = <<>>
    /\ active_operations = 0

\* MainController.actualizar_datos: cargar_datos on a worker.  Call 1 is
\* GET /friends/, call 2 is GET /expenses/, the calls of the loop over the
\* expenses follow.
Refresh(flt) ==
    /\ Inject(flt)
    /\ flt.at <= cargar_gastos(store, 3, flt).calls
    /\ IF flt.at = 1
       THEN UNCHANGED <<amigos, gastos>>
       ELSE IF flt.at = 2
            THEN amigos' = cargar_amigos(store) /\ UNCHANGED gastos
            ELSE /\ amigos' = cargar_amigos(store)
                 /\ gastos' = cargar_gastos(store, 3, flt).gastos
    /\ LET failed == IF flt.at \in {1, 2} THEN flt.at
                     ELSE cargar_gastos(store, 3, flt).failed
       IN last' = [NoOp EXCEPT !.op = "refresh", !.ok = (failed = 0),
                               !.error = IF failed # 0 THEN OuterMessage(flt.kind) ELSE "",
                               !.failed = failed]
    /\ pending' = FALSE
    /\ UNCHANGED store

\* MainController._realizar_add_gasto: crear_gasto on a worker; on_success
\* starts the refresh.
AddGasto(monto, pagador_id, deudores_ids, flt, rollbackOk) ==
    /\ ~pending
    /\ Inject(flt)
    /\ store.nextId <= MaxExpenses
    /\ pagador_id \in AmigoIds
    /\ Range(deudores_ids) \subseteq AmigoIds
    /\ monto > 0
    /\ deudores_ids # <<>>
    /\ flt.at <= 1 + Len(AddGastoPlan(store.nextId, monto, pagador_id, deudores_ids))
    /\ \E r \in {add_gasto(store, gastos, "d0", monto, pagador_id, deudores_ids, flt, rollbackOk)} :
          /\ r.rollback \/ rollbackOk
          /\ store' = r.store
          /\ gastos' = r.gastos
          /\ last' = [NoOp EXCEPT !.op = "add_gasto", !.ok = r.ok, !.error = r.error,
                                  !.id = r.id, !.monto = monto, !.pagador_id = pagador_id,
                                  !.deudores_ids = deudores_ids, !.rollback = r.rollback,
                                  !.rollbackOk = rollbackOk,
                                  !.failed = r.failed, !.log = r.log, !.exc = r.exc]
          /\ pending' = r.ok
    /\ UNCHANGED amigos

\* The calls of one operation a fault can hit, and the faults.
FaultAt == 1..9

Faults == {NoFault} \cup [at : FaultAt, kind : ExcKinds]

RefreshFaults == {NoFault} \cup [at : {1, 2}, kind : ExcKinds]

\* The expenses the user enters.
ExpenseInputs ==
    {[monto |-> 12, pagador_id |-> 1, deudores_ids |-> <<1, 2>>],
     [monto |-> 24, pagador_id |-> 2, deudores_ids |-> <<1, 2, 3>>],
     [monto |-> 12, pagador_id |-> 1, deudores_ids |-> <<2, 3>>],
     [monto |-> 24, pagador_id |-> 1, deudores_ids |-> <<3>>],
     [monto |-> 24, pagador_id |-> 2, deudores_ids |-> <<2>>]}

(***************************************************************************)
(* Creating expenses, with store failures                                  *)
(***************************************************************************)
CreateRefresh == (\E flt \in RefreshFaults : Refresh(flt)) /\ UNCHANGED <<payments, edits, threads, idle, active_operations>>

CreateAddGasto ==
    /\ \E x \in ExpenseInputs, flt \in Faults, rb \in BOOLEAN :
          AddGasto(x.monto, x.pagador_id, x.deudores_ids, flt, rb)
    /\ UNCHANGED <<payments, edits, threads, idle, active_operations>>

Next == CreateRefresh \/ CreateAddGasto

Spec == Init /\ [][Next]_vars

(***************************************************************************)
(* Paying balances                                                         *)
(***************************************************************************)
MaxPayments == 2

MaxEdits == 2

\* MainController.pagar_saldo: procesar_pago on a worker; on_success starts
\* the refresh.
PagarSaldo(amigo_id, importe, flt) ==
    /\ ~pending
    /\ Inject(flt)
    /\ payments < MaxPayments
    /\ amigo_id \in AmigoIds
    /\ importe > 0
    /\ flt.at <= 2 + Len(store.exps)
    /\ \E r \in {pagar_saldo(store, amigos, amigo_id, importe, flt)} :
          /\ flt.at # 0 => r.failed # 0
          /\ store' = r.store
          /\ amigos' = r.amigos
          /\ last' = [NoOp EXCEPT !.op = "pagar_saldo", !.ok = r.ok, !.error = r.error,
                                  !.amigo_id = amigo_id, !.monto = importe,
                                  !.failed = r.failed, !.log = r.log,
                                  !.shares = r.shares, !.restante = r.restante,
                                  !.rejected = r.rejected]
          /\ pending' = r.ok
    /\ payments' = payments + 1
    /\ UNCHANGED edits
    /\ UNCHANGED gastos

PayExpenseInputs ==
    {[monto |-> 12, pagador_id |-> 1, deudores_ids |-> <<1, 2>>],
     [monto |-> 24, pagador_id |-> 1, deudores_ids |-> <<2, 3>>]}

PayRefresh == Refresh(NoFault) /\ UNCHANGED <<payments, edits, threads, idle, active_operations>>

PayAddGasto ==
    /\ \E x \in PayExpenseInputs :
          AddGasto(x.monto, x.pagador_id, x.deudores_ids, NoFault, TRUE)
    /\ UNCHANGED <<payments, edits, threads, idle, active_operations>>

PayFaults == {NoFault} \cup [at : FaultAt, kind : {"Timeout", "HTTPError"}]

PayPagarSaldo ==
    /\ \E a \in People, importe \in PayAmounts, flt \in PayFaults :
          PagarSaldo(a, importe, flt)
    /\ UNCHANGED <<threads, idle, active_operations>>

NextPay == PayRefresh \/ PayAddGasto \/ PayPagarSaldo

SpecPay == Init /\ [][NextPay]_vars

(***************************************************************************)
(* Deleting friends                                                        *)
(***************************************************************************)
\* MainController.eliminar_amigo: eliminar_amigo_async on a worker;
\* on_success starts the refresh.
EliminarAmigo(amigo_id, flt) ==
    /\ ~pending
    /\ Inject(flt)
    /\ amigo_id \in AmigoIds
    /\ flt.at <= 2
    /\ \E r \in {eliminar_amigo_async(store, amigos, amigo_id, flt)} :
          /\ flt.at # 0 => r.failed = flt.at
          /\ store' = r.store
          /\ amigos' = r.amigos
          /\ last' = [NoOp EXCEPT !.op = "eliminar_amigo", !.ok = r.ok, !.error = r.error,
                                  !.amigo_id = amigo_id, !.failed = r.failed,
                                  !.log = r.log, !.saldo = r.saldo]
          /\ pending' = r.ok
    /\ UNCHANGED <<gastos, payments, edits, threads, idle, active_operations>>

DelFaults == {NoFault} \cup [at : FaultAt, kind : {"HTTPError"}]

DelRefresh == Refresh(NoFault) /\ UNCHANGED <<payments, edits, threads, idle, active_operations>>

DelAddFaults == {NoFault} \cup [at : {3, 5}, kind : {"HTTPError"}]

DelAddGasto ==
    /\ \E x \in PayExpenseInputs, flt \in DelAddFaults :
          AddGasto(x.monto, x.pagador_id, x.deudores_ids, flt, TRUE)
    /\ UNCHANGED <<payments, edits, threads, idle, active_operations>>

DelPagarSaldo == (\E a \in People : PagarSaldo(a, 50, NoFault)) /\ UNCHANGED <<threads, idle, active_operations>>

DelEliminarAmigo == \E a \in People, flt \in DelFaults : EliminarAmigo(a, flt)

\* MainController.borrar_todos_amigos: nothing is started when self.amigos is
\* empty; otherwise eliminar_todos_amigos runs on a worker and on_success
\* starts the refresh.
BorrarTodosAmigos(flt) ==
    /\ ~pending
    /\ Inject(flt)
    /\ amigos # <<>>
    /\ flt.at <= Len(amigos)
    /\ \E r \in {eliminar_todos_amigos(store, amigos, flt)} :
          /\ store' = r.store
          /\ amigos' = r.amigos
          /\ last' = [NoOp EXCEPT !.op = "borrar_todos_amigos", !.ok = TRUE,
                                  !.eliminados = r.eliminados, !.total = r.total,
                                  !.errores = r.errores, !.log = r.log]
          /\ pending' = TRUE
    /\ UNCHANGED <<gastos, payments, edits, threads, idle, active_operations>>

DelBorrarTodosAmigos == \E flt \in DelFaults : BorrarTodosAmigos(flt)

NextDelete ==
    DelRefresh \/ DelAddGasto \/ DelPagarSaldo \/ DelEliminarAmigo \/ DelBorrarTodosAmigos

SpecDelete == Init /\ [][NextDelete]_vars

(***************************************************************************)
(* Editing expenses                                                        *)
(***************************************************************************)
\* MainController.actualizar_gasto with a payload: update_gasto on a worker;
\* on_success starts the refresh.
ActualizarGasto(gasto_id, datos, flt) ==
    /\ ~pending
    /\ Inject(flt)
    /\ edits < MaxEdits
    /\ \E r \in {update_gasto(store, gastos, gasto_id, datos, flt)} :
          /\ flt.at <= r.calls
          /\ store' = r.store
          /\ gastos' = r.gastos
          /\ last' = [NoOp EXCEPT !.op = "update_gasto", !.ok = r.ok, !.error = r.error,
                                  !.id = gasto_id, !.monto = datos.monto,
                                  !.descripcion = datos.descripcion,
                                  !.fecha = datos.fecha,
                                  !.pagador_id = r.pagador_id,
                                  !.deudores_ids = datos.participantes_ids,
                                  !.failed = r.failed, !.log = r.log,
                                  !.rejected = r.skipped]
          /\ pending' = r.ok
    /\ edits' = edits + 1
    /\ UNCHANGED <<amigos, payments>>

\* What the edit dialog sends: descripcion, monto, fecha and the ticked
\* participants, never a pagador_id.
EditInputs ==
    [descripcion : {"d1"}, monto : {12, 24}, fecha : {Today},
     participantes_ids : {<<1, 2>>, <<2, 3>>}, pagador_id : {None}]

EditExpenseInputs ==
    {[monto |-> 12, pagador_id |-> 1, deudores_ids |-> <<1, 2>>],
     [monto |-> 12, pagador_id |-> 1, deudores_ids |-> <<2, 3>>]}

EditFaults == {NoFault} \cup [at : 1..3, kind : {"HTTPError"}]

EditRefresh == Refresh(NoFault) /\ UNCHANGED <<payments, edits, threads, idle, active_operations>>

EditAddGasto ==
    /\ \E x \in EditExpenseInputs :
          AddGasto(x.monto, x.pagador_id, x.deudores_ids, NoFault, TRUE)
    /\ UNCHANGED <<payments, edits, threads, idle, active_operations>>

EditActualizarGasto ==
    /\ \E gasto_id \in GastoIds, datos \in EditInputs, flt \in EditFaults :
          ActualizarGasto(gasto_id, datos, flt)
    /\ UNCHANGED <<threads, idle, active_operations>>

NextEdit == EditRefresh \/ EditAddGasto \/ EditActualizarGasto

SpecEdit == Init /\ [][NextEdit]_vars

(***************************************************************************)
(* Deleting expenses                                                       *)
(***************************************************************************)
\* MainController.eliminar_gasto: Main.eliminar_gasto on a worker;
\* on_success starts the refresh.
EliminarGasto(gasto_id, flt) ==
    /\ ~pending
    /\ Inject(flt)
    /\ gasto_id \in GastoIds
    /\ flt.at <= 1
    /\ \E r \in {eliminar_gasto(store, gastos, gasto_id, 1, flt)} :
          /\ store' = r.store
          /\ gastos' = r.gastos
          /\ last' = [NoOp EXCEPT !.op = "eliminar_gasto", !.ok = r.ok, !.error = r.error,
                                  !.id = gasto_id, !.failed = IF r.ok THEN 0 ELSE 1,
                                  !.log = <<CallDeleteExpense(gasto_id)>>]
          /\ pending' = r.ok
    /\ UNCHANGED <<amigos, payments, edits, threads, idle, active_operations>>

\* MainController.borrar_todos_gastos: with self.gastos empty the message is
\* shown and nothing is started; otherwise eliminar_todos_gastos runs on a
\* worker and on_success starts the refresh.
BorrarTodosGastos(flt) ==
    /\ ~pending
    /\ Inject(flt)
    /\ flt.at <= Len(gastos)
    /\ IF gastos = <<>>
       THEN /\ last' = [NoOp EXCEPT !.op = "borrar_todos_gastos", !.ok = FALSE,
                                    !.error = "MsgNothingToDelete", !.worker = FALSE]
            /\ UNCHANGED <<store, gastos, pending>>
       ELSE \E r \in {eliminar_todos_gastos(store, gastos, flt)} :
               /\ store' = r.store
               /\ gastos' = r.gastos
               /\ last' = [NoOp EXCEPT !.op = "borrar_todos_gastos", !.ok = r.ok,
                                       !.error = r.error, !.failed = r.failed,
                                       !.log = r.log, !.eliminados = r.cantidad,
                                       !.total = Len(gastos)]
               /\ pending' = r.ok
    /\ UNCHANGED <<amigos, payments, edits, threads, idle, active_operations>>

BulkRefresh == Refresh(NoFault) /\ UNCHANGED <<payments, edits, threads, idle, active_operations>>

BulkAddGasto ==
    /\ \E x \in ExpenseInputs, flt \in DelFaults :
          AddGasto(x.monto, x.pagador_id, x.deudores_ids, flt, TRUE)
    /\ UNCHANGED <<payments, edits, threads, idle, active_operations>>

BulkEliminarGasto == \E gasto_id \in 1..MaxExpenses, flt \in DelFaults : EliminarGasto(gasto_id, flt)

BulkBorrarTodosGastos == \E flt \in PayFaults : BorrarTodosGastos(flt)

NextBulk == BulkRefresh \/ BulkAddGasto \/ BulkEliminarGasto \/ BulkBorrarTodosGastos

SpecBulk == Init /\ [][NextBulk]_vars

(***************************************************************************)
(* Operations as the views start them: texts in, validation first          *)
(***************************************************************************)
\* An operation that ends before or without any store call: only the result changes.
Rechazo(op, error, worker) ==
    /\ ~pending
    /\ last' = [NoOp EXCEPT !.op = op, !.ok = FALSE, !.error = error, !.worker = worker]
    /\ UNCHANGED <<store, amigos, gastos, pending, faults, payments, edits, threads, idle, active_operations>>

\* MainController._realizar_add_gasto: validation on the main thread, then
\* crear_gasto on a worker.
RealizarAddGasto(monto_str, pagador_id, deudores_ids, flt, rollbackOk) ==
    IF ValidarGasto(monto_str, deudores_ids) # ""
    THEN flt = NoFault /\ rollbackOk
         /\ Rechazo("add_gasto", ValidarGasto(monto_str, deudores_ids), FALSE)
    ELSE IF crear_gasto_valida(monto_str, deudores_ids) # ""
    THEN flt = NoFault /\ rollbackOk
         /\ Rechazo("add_gasto", crear_gasto_valida(monto_str, deudores_ids), TRUE)
    ELSE /\ AddGasto(ParseFloat(monto_str).value, pagador_id, deudores_ids, flt, rollbackOk)
         /\ UNCHANGED <<payments, edits, threads, idle, active_operations>>

\* MainController.pagar_saldo: validation on the main thread, then
\* procesar_pago on a worker.
PagarSaldoImporte(amigo_id, importe_str, flt) ==
    IF ValidarPago(importe_str) # ""
    THEN flt = NoFault /\ amigo_id \in AmigoIds
         /\ Rechazo("pagar_saldo", ValidarPago(importe_str), FALSE)
    ELSE IF procesar_pago_valida(importe_str) # ""
    THEN flt = NoFault /\ amigo_id \in AmigoIds
         /\ Rechazo("pagar_saldo", procesar_pago_valida(importe_str), TRUE)
    ELSE PagarSaldo(amigo_id, ParseFloat(importe_str).value, flt) /\ UNCHANGED <<threads, idle, active_operations>>

MontoStrs == {"12", "24", "0", "-6", "", "abc"}

ImporteStrs == {"10", "50", "0", "-6", "", " ", "abc"}

InputExpenseInputs ==
    {[pagador_id |-> 1, deudores_ids |-> <<1, 2>>],
     [pagador_id |-> 1, deudores_ids |-> <<2, 3>>],
     [pagador_id |-> 2, deudores_ids |-> <<>>]}

InputRefresh == Refresh(NoFault) /\ UNCHANGED <<payments, edits, threads, idle, active_operations>>

InputAddGasto ==
    \E s \in MontoStrs, x \in InputExpenseInputs :
        RealizarAddGasto(s, x.pagador_id, x.deudores_ids, NoFault, TRUE)

InputPagarSaldo ==
    \E a \in People, s \in ImporteStrs : PagarSaldoImporte(a, s, NoFault)

\* MainController.actualizar_gasto without a payload: the expense is looked
\* up in self.gastos and its participants are fetched on a worker for the
\* edit dialog; nothing is refreshed afterwards.
EditarGasto(gasto_id, flt) ==
    /\ ~pending
    /\ Inject(flt)
    /\ flt.at <= 1
    /\ IF gasto_id \notin GastoIds
       THEN /\ flt = NoFault
            /\ last' = [NoOp EXCEPT !.op = "editar_gasto", !.ok = FALSE, !.id = gasto_id,
                                    !.error = "MsgExpenseNotFound", !.worker = FALSE]
       ELSE \E r \in {obtener_participantes_gasto(store, gasto_id, 1, flt)} :
               last' = [NoOp EXCEPT !.op = "editar_gasto", !.ok = r.ok, !.id = gasto_id,
                                    !.error = r.error, !.log = r.log,
                                    !.deudores_ids = r.ids,
                                    !.failed = IF r.ok THEN 0 ELSE 1]
    /\ UNCHANGED <<store, amigos, gastos, pending, payments, edits, threads, idle, active_operations>>

FetchEditInputs ==
    [descripcion : {"d1"}, monto : {24}, fecha : {Today},
     participantes_ids : {<<1, 2>>}, pagador_id : {None}]

FetchRefresh == Refresh(NoFault) /\ UNCHANGED <<payments, edits, threads, idle, active_operations>>

FetchAddGasto ==
    /\ \E x \in EditExpenseInputs, flt \in DelAddFaults :
          AddGasto(x.monto, x.pagador_id, x.deudores_ids, flt, TRUE)
    /\ UNCHANGED <<payments, edits, threads, idle, active_operations>>

FetchActualizarGasto ==
    /\ \E gasto_id \in 1..MaxExpenses, datos \in FetchEditInputs :
          ActualizarGasto(gasto_id, datos, NoFault)
    /\ UNCHANGED <<threads, idle, active_operations>>

FetchEditarGasto == \E gasto_id \in 1..MaxExpenses, flt \in DelFaults : EditarGasto(gasto_id, flt)

NextFetch == FetchRefresh \/ FetchAddGasto \/ FetchActualizarGasto \/ FetchEditarGasto

SpecFetch == Init /\ [][NextFetch]_vars

NextInput == InputRefresh \/ InputAddGasto \/ InputPagarSaldo

SpecInput == Init /\ [][NextInput]_vars

(***************************************************************************)
(* Edits of expenses with payments on them                                 *)
(***************************************************************************)
PayerExpenseInputs ==
    {[monto |-> 12, pagador_id |-> 1, deudores_ids |-> <<2, 3>>],
     [monto |-> 12, pagador_id |-> 2, deudores_ids |-> <<1, 2>>]}

\* The edit dialog's payload: no pagador_id.
PayerEditInputs ==
    [descripcion : {"d1"}, monto : {24}, fecha : {Today},
     participantes_ids : {<<1, 2>>, <<2, 3>>}, pagador_id : {None}]

PayerRefresh == Refresh(NoFault) /\ UNCHANGED <<payments, edits, threads, idle, active_operations>>

PayerAddGasto ==
    /\ \E x \in PayerExpenseInputs :
          AddGasto(x.monto, x.pagador_id, x.deudores_ids, NoFault, TRUE)
    /\ UNCHANGED <<payments, edits, threads, idle, active_operations>>

PayerPagarSaldo ==
    /\ \E a \in {1, 2} : PagarSaldo(a, 10, NoFault)
    /\ UNCHANGED <<threads, idle, active_operations>>

PayerActualizarGasto ==
    /\ \E gasto_id \in GastoIds, datos \in PayerEditInputs :
          ActualizarGasto(gasto_id, datos, NoFault)
    /\ UNCHANGED <<threads, idle, active_operations>>

NextPayer == PayerRefresh \/ PayerAddGasto \/ PayerPagarSaldo \/ PayerActualizarGasto

SpecPayer == Init /\ [][NextPayer]_vars

(***************************************************************************)
(* Refresh with store failures                                             *)
(***************************************************************************)
LoadFaults == {NoFault} \cup [at : FaultAt, kind : {"Timeout", "HTTPError"}]

LoadRefresh == (\E flt \in LoadFaults : Refresh(flt)) /\ UNCHANGED <<payments, edits, threads, idle, active_operations>>

LoadAddGasto ==
    /\ \E x \in ExpenseInputs :
          AddGasto(x.monto, x.pagador_id, x.deudores_ids, NoFault, TRUE)
    /\ UNCHANGED <<payments, edits, threads, idle, active_operations>>

NextLoad == LoadRefresh \/ LoadAddGasto

SpecLoad == Init /\ [][NextLoad]_vars

(***************************************************************************)
(* ConcurrencyService.execute_async                                        *)
(***************************************************************************)
MaxThreads == 2

\* One worker thread: the operation whose func it executes, with its arguments.
Thread(op, amigo_id, monto, pagador_id, deudores_ids) ==
    [op |-> op, amigo_id |-> amigo_id, monto |-> monto, pagador_id |-> pagador_id,
     deudores_ids |-> deudores_ids, gasto_id |-> None, hang |-> 0, pc |-> "running",
     tid |-> 0, k |-> 0, saldo |-> 0, leido |-> <<>>]

RefreshThread == Thread("refresh", None, 0, None, <<>>)

RemoveAt(s, i) == [k \in 1..(Len(s) - 1) |-> IF k < i THEN s[k] ELSE s[k + 1]]

\* execute_async: threading.Thread(target=worker).start(), whatever else is
\* running; the thread joins self.threads.
execute_async(T, th) == Append(T, th)

\* The workers execute_async has started so far: those still alive and those
\* that ended, each of which ran `self.active_operations -= 1` once.
MaxWorkers == 5

Iniciados == Len(threads) - active_operations

\* The operations whose on_success does not call actualizar_datos.
SinRefresco == {"refresh", "add_amigo"}

\* The refreshes still to be started by the on_success of the other operations.
PorIniciar(T, Q) ==
    Cardinality({i \in 1..Len(T) : T[i].op \notin SinRefresco})
        + Cardinality({j \in 1..Len(Q) : Q[j].op \notin SinRefresco /\ Q[j].cb = "callback"})

Coste(th) == IF th.op \in SinRefresco THEN 1 ELSE 2

HayCupo(th) == Iniciados + PorIniciar(threads, idle) + Coste(th) <= MaxWorkers

\* ConcurrencyService.has_active_operations
has_active_operations == active_operations > 0

\* The operations the views start while workers may be running.
ConcRequests ==
    {RefreshThread,
     Thread("add_gasto", None, 12, 1, <<1, 2>>),
     Thread("pagar_saldo", 2, 50, None, <<>>)}

\* A controller method called on the main thread hands its func to execute_async.
Dispatch(th) ==
    /\ Len(threads) < MaxThreads
    /\ HayCupo(th)
    /\ threads' = execute_async(threads, th)
    /\ last' = [NoOp EXCEPT !.op = "dispatch"]
    /\ UNCHANGED <<store, amigos, gastos, pending, faults, payments, edits, idle,
                   active_operations>>

\* on_success of a mutating operation calls actualizar_datos, which hands
\* cargar_datos to execute_async.
AfterSuccess(T, ok) == IF ok THEN execute_async(T, RefreshThread) ELSE T

\* The func of worker i returns and its callback runs.
CompleteRefresh(i) ==
    /\ threads[i].op = "refresh"
    /\ Refresh(NoFault)
    /\ threads' = RemoveAt(threads, i)
    /\ UNCHANGED <<payments, edits, idle>>
    /\ active_operations' = active_operations - 1

CompleteAddGasto(i) ==
    /\ threads[i].op = "add_gasto"
    /\ AddGasto(threads[i].monto, threads[i].pagador_id, threads[i].deudores_ids,
                NoFault, TRUE)
    /\ threads' = AfterSuccess(RemoveAt(threads, i), last'.ok)
    /\ UNCHANGED <<payments, edits, idle>>
    /\ active_operations' = active_operations - 1

CompletePagarSaldo(i) ==
    /\ threads[i].op = "pagar_saldo"
    /\ PagarSaldo(threads[i].amigo_id, threads[i].monto, NoFault)
    /\ threads' = AfterSuccess(RemoveAt(threads, i), last'.ok)
    /\ UNCHANGED idle
    /\ active_operations' = active_operations - 1

ConcDispatch == \E th \in ConcRequests : Dispatch(th)

ConcRefresh == \E i \in 1..Len(threads) : CompleteRefresh(i)

ConcAddGasto == \E i \in 1..Len(threads) : CompleteAddGasto(i)

ConcPagarSaldo == \E i \in 1..Len(threads) : CompletePagarSaldo(i)

NextConc == ConcDispatch \/ ConcRefresh \/ ConcAddGasto \/ ConcPagarSaldo

SpecConc == Init /\ [][NextConc]_vars

(***************************************************************************)
(* Store calls and REQUEST_TIMEOUT                                         *)
(***************************************************************************)
\* Whether the k-th store call of an operation passes timeout=REQUEST_TIMEOUT.
\* add_gasto passes it on POST /expenses/ only, update_gasto on the GET of
\* the participants and the PUT of the expense only; cargar_amigos,
\* cargar_gastos and pagar_saldo pass it on every call.
ConTimeout(op, k) ==
    CASE op = "add_gasto"    -> k = 1
      [] op = "update_gasto" -> k <= 2
      [] OTHER               -> TRUE

\* A store that stops answering call k: requests raises Timeout after
\* REQUEST_TIMEOUT when the call passes a timeout.
FaltaRespuesta(k) == [at |-> k, kind |-> "Timeout"]

\* Without a timeout requests waits for the response with no limit.
Bloqueado(th, emitida) == th.hang # 0 /\ emitida /\ ~ConTimeout(th.op, th.hang)

HangFlt(th, emitida) == IF th.hang # 0 /\ emitida THEN FaltaRespuesta(th.hang) ELSE NoFault

\* The worker whose store stops answering its call number k.
Colgar(th, k) == [th EXCEPT !.hang = k]

MaxHang == 4

HangRequests ==
    {RefreshThread,
     Thread("add_gasto", None, 12, 1, <<1, 2>>),
     Thread("add_gasto", None, 12, 1, <<2, 3>>),
     Thread("pagar_saldo", 2, 10, None, <<>>),
     [Thread("update_gasto", None, 24, None, <<1, 2>>) EXCEPT !.gasto_id = 1],
     [Thread("update_gasto", None, 12, None, <<2, 3>>) EXCEPT !.gasto_id = 1]}

HangDatos(th) ==
    [descripcion |-> "d1", monto |-> th.monto, fecha |-> Today,
     participantes_ids |-> th.deudores_ids, pagador_id |-> None]

\* Whether the operation of worker th gets as far as issuing its call number
\* th.hang.
Emitida(th) ==
    CASE th.op = "refresh" ->
            th.hang <= cargar_gastos(store, 3, FaltaRespuesta(th.hang)).calls
      [] th.op = "add_gasto" ->
            add_gasto(store, gastos, "d0", th.monto, th.pagador_id, th.deudores_ids,
                      FaltaRespuesta(th.hang), TRUE).failed = th.hang
      [] th.op = "pagar_saldo" ->
            pagar_saldo(store, amigos, th.amigo_id, th.monto,
                        FaltaRespuesta(th.hang)).failed # 0
      [] th.op = "update_gasto" ->
            update_gasto(store, gastos, th.gasto_id, HangDatos(th),
                         FaltaRespuesta(th.hang)).calls >= th.hang

\* One operation at a time: the next one is started when the last has ended,
\* and the on_success of a mutating operation starts the refresh.
HangDispatch ==
    \E th \in HangRequests, k \in 0..MaxHang :
        /\ threads = <<>>
        /\ pending => th.op = "refresh"
        /\ HayCupo(th)
        /\ k # 0 => faults < MaxFaults
        /\ th.op = "add_gasto" => store.nextId <= MaxExpenses
        /\ th.op = "pagar_saldo" => payments < MaxPayments /\ th.amigo_id \in AmigoIds
        /\ th.op = "update_gasto" => edits < MaxEdits
        /\ threads' = execute_async(threads, Colgar(th, k))
        /\ last' = [NoOp EXCEPT !.op = "dispatch"]
        /\ UNCHANGED <<store, amigos, gastos, pending, faults, payments, edits, idle,
                   active_operations>>

\* The store as update_gasto issues its call number k >= 3: the calls before
\* it have been answered.
StoreHastaUpdate(S, G, gasto_id, datos, k) ==
    LET gasto_actual == G[GastoIndex(G, gasto_id)]
        actuales == StoreParticipants(S, gasto_id)
        nuevos == datos.participantes_ids
        S2 == StoreUpdateExpense(S, gasto_id, datos.descripcion, datos.monto, datos.fecha)
        plan == IF Range(actuales) # Range(nuevos)
                THEN PlanDiff(gasto_id, actuales, nuevos) ELSE <<>>
        d == RunSkip(S2, plan, 3, NoFault, <<>>, 0)
        dado == IF datos.pagador_id # None THEN datos.pagador_id
                ELSE gasto_actual.pagador_id
        b == IF dado = None
             THEN BuscarPagador(d.store, gasto_id, nuevos, d.k, NoFault, 0)
             ELSE [pagador_id |-> dado, k |-> d.k, skipped |-> 0]
        rec == PlanRecalculo(gasto_id, b.pagador_id, datos.monto, nuevos)
    IN IF k < d.k THEN RunSkip(S2, SubSeq(plan, 1, k - 3), 3, NoFault, <<>>, 0).store
       ELSE IF k < b.k THEN d.store
       ELSE RunSkip(d.store, SubSeq(rec, 1, k - b.k), b.k, NoFault, <<>>, 0).store

\* The func of the worker is running.
Corriendo == threads # <<>> /\ threads[1].pc = "running"

\* The worker waits for a response that never comes; the calls answered
\* before have had their effect on the store.
Espera(S1) ==
    /\ threads' = <<[threads[1] EXCEPT !.pc = "blocked"]>>
    /\ store' = S1
    /\ faults' = faults + 1
    /\ UNCHANGED <<amigos, gastos, last, pending, payments, edits, idle,
                 active_operations>>

\* cargar_datos: every call passes the timeout.
HangRefresh ==
    /\ Corriendo
    /\ threads[1].op = "refresh"
    /\ ~Bloqueado(threads[1], Emitida(threads[1]))
    /\ Refresh(HangFlt(threads[1], Emitida(threads[1])))
    /\ threads' = <<>>
    /\ UNCHANGED <<payments, edits, idle>>
    /\ active_operations' = active_operations - 1

HangAddGasto ==
    /\ Corriendo
    /\ threads[1].op = "add_gasto"
    /\ IF Bloqueado(threads[1], Emitida(threads[1]))
       THEN Espera(add_gasto(store, gastos, "d0", threads[1].monto, threads[1].pagador_id,
                             threads[1].deudores_ids, FaltaRespuesta(threads[1].hang),
                             FALSE).store)
       ELSE /\ AddGasto(threads[1].monto, threads[1].pagador_id, threads[1].deudores_ids,
                        HangFlt(threads[1], Emitida(threads[1])), TRUE)
            /\ threads' = <<>>
            /\ UNCHANGED <<payments, edits, idle>>
            /\ active_operations' = active_operations - 1

\* procesar_pago: every call passes the timeout.
HangPagarSaldo ==
    /\ Corriendo
    /\ threads[1].op = "pagar_saldo"
    /\ ~Bloqueado(threads[1], Emitida(threads[1]))
    /\ PagarSaldo(threads[1].amigo_id, threads[1].monto,
                  HangFlt(threads[1], Emitida(threads[1])))
    /\ threads' = <<>>
    /\ UNCHANGED idle
    /\ active_operations' = active_operations - 1

HangActualizarGasto ==
    /\ Corriendo
    /\ threads[1].op = "update_gasto"
    /\ IF Bloqueado(threads[1], Emitida(threads[1]))
       THEN Espera(StoreHastaUpdate(store, gastos, threads[1].gasto_id,
                                    HangDatos(threads[1]), threads[1].hang))
       ELSE /\ ActualizarGasto(threads[1].gasto_id, HangDatos(threads[1]),
                               HangFlt(threads[1], Emitida(threads[1])))
            /\ threads' = <<>>
            /\ UNCHANGED idle
            /\ active_operations' = active_operations - 1

NextHang ==
    HangDispatch \/ HangRefresh \/ HangAddGasto \/ HangPagarSaldo \/ HangActualizarGasto

\* The next step of the running worker: its func ends, or it starts to wait
\* in a call.
Avanza ==
    /\ Corriendo
    /\ threads' = <<>> \/ threads' = <<[threads[1] EXCEPT !.pc = "blocked"]>>

\* A started worker thread is scheduled.
SpecHang == Init /\ [][NextHang]_vars /\ WF_threads(Avanza)

(***************************************************************************)
(* The worker of execute_async and the GLib main loop                      *)
(***************************************************************************)
\* The Thread objects execute_async can create next: those of no live worker
\* and of no callback still waiting in the main loop.
TidsLibres(T, Q) ==
    {t \in 1..MaxThreads :
        /\ \A i \in 1..Len(T) : T[i].tid # t
        /\ \A j \in 1..Len(Q) : Q[j].tid # t}

NuevoTid(T, Q) == CHOOSE t \in TidsLibres(T, Q) : \A u \in TidsLibres(T, Q) : t <= u

\* What the worker hands to GLib.idle_add when func has ended: callback(result)
\* after the try body, error_callback(error) in the except clause.
NotificarAmbos(th) ==
    <<[cb |-> "callback", tid |-> th.tid, op |-> th.op],
      [cb |-> "error_callback", tid |-> th.tid, op |-> th.op]>>

Notificar(th) ==
    IF th.pc = "returned"
    THEN <<[cb |-> "callback", tid |-> th.tid, op |-> th.op]>>
    ELSE <<[cb |-> "error_callback", tid |-> th.tid, op |-> th.op]>>

AsyncRequests ==
    {RefreshThread, Thread("add_gasto", None, 12, 1, <<1, 2>>)}

\* What the store does to the calls of crear_gasto: it answers them all, or
\* POST /expenses/ times out and add_gasto raises.
AsyncFaults == {NoFault, [at |-> 1, kind |-> "Timeout"]}

\* A controller method, on the main thread, hands func, on_success and
\* on_error to execute_async.
AsyncDispatch ==
    \E th \in AsyncRequests :
        /\ Len(threads) + Len(idle) < MaxThreads
        /\ HayCupo(th)
        /\ th.op = "add_gasto" => store.nextId <= MaxExpenses
        /\ threads' = execute_async(threads, [th EXCEPT !.tid = NuevoTid(threads, idle)])
        /\ last' = [NoOp EXCEPT !.op = "dispatch"]
        /\ UNCHANGED <<store, amigos, gastos, pending, faults, payments, edits, idle,
                   active_operations>>

\* result = func(), on the worker thread: func returns or raises.
Termina(i) ==
    threads' = [threads EXCEPT ![i].pc = IF last'.ok THEN "returned" ELSE "raised"]

AsyncRefresh ==
    \E i \in 1..Len(threads) :
        /\ threads[i].pc = "running"
        /\ threads[i].op = "refresh"
        /\ Refresh(NoFault)
        /\ Termina(i)
        /\ UNCHANGED <<payments, edits, idle, active_operations>>

AsyncAddGasto ==
    \E i \in 1..Len(threads), flt \in AsyncFaults :
        /\ threads[i].pc = "running"
        /\ threads[i].op = "add_gasto"
        /\ AddGasto(threads[i].monto, threads[i].pagador_id, threads[i].deudores_ids,
                    flt, TRUE)
        /\ Termina(i)
        /\ UNCHANGED <<payments, edits, idle, active_operations>>

\* The worker whose func has ended calls GLib.idle_add and ends.
Notifica(t) ==
    \E i \in 1..Len(threads) :
        /\ threads[i].tid = t
        /\ threads[i].pc \in {"returned", "raised"}
        /\ idle' = idle \o Notificar(threads[i])
        /\ threads' = RemoveAt(threads, i)
        /\ last' = [NoOp EXCEPT !.op = "idle_add"]
        /\ active_operations' = active_operations - 1
        /\ UNCHANGED <<store, amigos, gastos, pending, faults, payments, edits>>

AsyncNotifica == \E t \in 1..MaxThreads : Notifica(t)

\* The main loop runs the first scheduled callback; the on_success of a
\* mutating operation calls actualizar_datos.
AsyncIdle ==
    /\ idle # <<>>
    /\ idle' = Tail(idle)
    /\ threads' = IF Head(idle).cb = "callback" /\ Head(idle).op # "refresh"
                  THEN execute_async(threads,
                                     [RefreshThread EXCEPT
                                         !.tid = NuevoTid(threads, Tail(idle))])
                  ELSE threads
    /\ last' = [NoOp EXCEPT !.op = Head(idle).cb]
    /\ UNCHANGED <<store, amigos, gastos, pending, faults, payments, edits,
                   active_operations>>

NextAsync ==
    AsyncDispatch \/ AsyncRefresh \/ AsyncAddGasto \/ AsyncNotifica \/ AsyncIdle

\* A worker thread whose func has ended is scheduled.
SpecAsync == Init /\ [][NextAsync]_vars /\ \A t \in 1..MaxThreads : WF_vars(Notifica(t))

(***************************************************************************)
(* Workers interleaved at their store calls                                *)
(***************************************************************************)
\* In a thread, k is the number of store calls its func has been answered and
\* saldo the balance eliminar_amigo_async read with obtener_amigo.
RaceRequests ==
    {Thread("add_gasto", None, 12, 1, <<1, 2>>),
     Thread("eliminar_amigo", 2, 0, None, <<>>)}

RaceDispatch ==
    \E th \in RaceRequests :
        /\ Len(threads) < MaxThreads
        /\ HayCupo(th)
        /\ th.op = "add_gasto" =>
              /\ store.nextId <= MaxExpenses
              /\ {th.pagador_id} \cup Range(th.deudores_ids) \subseteq AmigoIds
        /\ th.op = "eliminar_amigo" => th.amigo_id \in AmigoIds
        /\ threads' = execute_async(threads, th)
        /\ last' = [NoOp EXCEPT !.op = "dispatch"]
        /\ UNCHANGED <<store, amigos, gastos, pending, faults, payments, edits, idle,
                       active_operations>>

\* The worker i ends: its callback runs, on_success starting the refresh.
Fin(i, ok) ==
    /\ threads' = AfterSuccess(RemoveAt(threads, i), ok)
    /\ active_operations' = active_operations - 1

\* The func of worker i is answered one more call.
Sigue(i, th) == threads' = [threads EXCEPT ![i] = th]

\* One store call of Main.add_gasto: POST /expenses/, then the calls of the
\* plan; a rejected call raises, the last one is followed by the append to
\* self.gastos.
RaceAddGastoStep(i) ==
    LET th == threads[i]
        plan == AddGastoPlan(th.gasto_id, th.monto, th.pagador_id, th.deudores_ids)
        gasto == [gasto_from_dict([id |-> th.gasto_id, description |-> "d0",
                                   amount |-> th.monto, date |-> Today,
                                   num_friends |-> 0]) EXCEPT
                     !.pagador_id = th.pagador_id]
        done == [NoOp EXCEPT !.op = "add_gasto", !.id = th.gasto_id, !.monto = th.monto,
                             !.pagador_id = th.pagador_id,
                             !.deudores_ids = th.deudores_ids]
    IN /\ th.op = "add_gasto"
       /\ IF th.k = 0
          THEN /\ store' = StoreCreateExpense(store, "d0", th.monto, Today)
               /\ Sigue(i, [th EXCEPT !.gasto_id = store.nextId, !.k = 1])
               /\ last' = [NoOp EXCEPT !.op = "call"]
               /\ UNCHANGED <<gastos, active_operations>>
          ELSE IF ~CallAccepted(store, plan[th.k])
               THEN /\ last' = [done EXCEPT !.ok = FALSE, !.error = "MsgStep",
                                            !.failed = th.k + 1]
                    /\ Fin(i, FALSE)
                    /\ UNCHANGED <<store, gastos>>
               ELSE /\ store' = CallApply(store, plan[th.k])
                    /\ IF th.k < Len(plan)
                       THEN /\ Sigue(i, [th EXCEPT !.k = th.k + 1])
                            /\ last' = [NoOp EXCEPT !.op = "call"]
                            /\ UNCHANGED <<gastos, active_operations>>
                       ELSE /\ gastos' = AppendGasto(gastos, gasto, 0)
                            /\ last' = done
                            /\ Fin(i, TRUE)
       /\ UNCHANGED <<amigos, pending, faults, payments, edits, idle>>

\* eliminar_amigo_async: GET /friends/{id} and the test of the balance, then
\* DELETE /friends/{id}.
RaceEliminarAmigoStep(i) ==
    LET th == threads[i]
        done == [NoOp EXCEPT !.op = "eliminar_amigo", !.amigo_id = th.amigo_id]
        r == eliminar_amigo(store, amigos, th.amigo_id, 2, NoFault)
    IN /\ th.op = "eliminar_amigo"
       /\ IF th.k = 0
          THEN IF th.amigo_id \notin store.friends
               THEN /\ last' = [done EXCEPT !.ok = FALSE, !.error = "MsgRemote",
                                            !.failed = 1]
                    /\ Fin(i, FALSE)
                    /\ UNCHANGED <<store, amigos>>
               ELSE IF SaldoEsCero(SaldoParaEliminar(store, amigos, th.amigo_id))
                    THEN /\ Sigue(i, [th EXCEPT !.k = 1,
                                         !.saldo = SaldoParaEliminar(store, amigos,
                                                                     th.amigo_id)])
                         /\ last' = [NoOp EXCEPT !.op = "call"]
                         /\ UNCHANGED <<store, amigos, active_operations>>
                    ELSE /\ last' = [done EXCEPT !.ok = FALSE,
                                        !.error = "MsgPendingBalance",
                                        !.saldo = SaldoParaEliminar(store, amigos,
                                                                    th.amigo_id)]
                         /\ Fin(i, FALSE)
                         /\ UNCHANGED <<store, amigos>>
          ELSE /\ store' = r.store
               /\ amigos' = r.amigos
               /\ last' = [done EXCEPT !.ok = r.ok, !.error = r.error,
                                       !.failed = IF r.ok THEN 0 ELSE 2,
                                       !.saldo = th.saldo]
               /\ Fin(i, r.ok)
       /\ UNCHANGED <<gastos, pending, faults, payments, edits, idle>>

RaceAddGasto == \E i \in 1..Len(threads) : RaceAddGastoStep(i)

RaceEliminarAmigo == \E i \in 1..Len(threads) : RaceEliminarAmigoStep(i)

RaceRefresh ==
    \E i \in 1..Len(threads) :
        /\ threads[i].op = "refresh"
        /\ Refresh(NoFault)
        /\ Fin(i, FALSE)
        /\ UNCHANGED <<payments, edits, idle>>

NextRace == RaceDispatch \/ RaceAddGasto \/ RaceEliminarAmigo \/ RaceRefresh

SpecRace == Init /\ [][NextRace]_vars

(***************************************************************************)
(* Refreshes overlapping the operations that change the lists              *)
(***************************************************************************)
\* createPerson(name): the store assigns the id.
NuevoAmigoId(S) ==
    CHOOSE n \in 1..(Cardinality(People) + 1) : \A m \in S.friends : m < n

StoreCreatePerson(S) == [S EXCEPT !.friends = @ \cup {NuevoAmigoId(S)}]

\* Main.add_amigo: POST /friends/ and self.amigos.append(amigo).
add_amigo(S, A) ==
    [store |-> StoreCreatePerson(S),
     amigos |-> Append(A, amigo_from_dict(StorePerson(StoreCreatePerson(S),
                                                      NuevoAmigoId(S))))]

SyncRequests ==
    {RefreshThread,
     Thread("add_gasto", None, 12, 1, <<1, 2>>),
     Thread("add_amigo", None, 0, None, <<>>)}

SyncDispatch ==
    \E th \in SyncRequests :
        /\ Len(threads) < MaxThreads
        /\ HayCupo(th)
        /\ th.op = "add_gasto" => store.nextId <= MaxExpenses
        /\ th.op = "add_amigo" => \A m \in store.friends : m \in People
        /\ threads' = execute_async(threads, th)
        /\ last' = [NoOp EXCEPT !.op = "dispatch"]
        /\ UNCHANGED <<store, amigos, gastos, pending, faults, payments, edits, idle,
                       active_operations>>

\* crear_amigo on its worker.
SyncAddAmigo ==
    \E i \in 1..Len(threads) :
        /\ threads[i].op = "add_amigo"
        /\ \A m \in store.friends : m \in People
        /\ store' = add_amigo(store, amigos).store
        /\ amigos' = add_amigo(store, amigos).amigos
        /\ last' = [NoOp EXCEPT !.op = "add_amigo", !.amigo_id = NuevoAmigoId(store)]
        /\ Fin(i, FALSE)
        /\ UNCHANGED <<gastos, pending, faults, payments, edits, idle>>

SyncAddGasto == \E i \in 1..Len(threads) : RaceAddGastoStep(i)

\* cargar_datos on its worker: the response of GET /friends/ arrives; it is
\* assigned to self.amigos and the response of GET /expenses/ arrives;
\* self.gastos is emptied and filled from that response.
SyncRefreshStep(i) ==
    LET th == threads[i]
    IN /\ th.op = "refresh"
       /\ IF th.k = 0
          THEN /\ Sigue(i, [th EXCEPT !.k = 1, !.leido = cargar_amigos(store)])
               /\ last' = [NoOp EXCEPT !.op = "call"]
               /\ UNCHANGED <<amigos, gastos, active_operations>>
          ELSE IF th.k = 1
               THEN /\ amigos' = th.leido
                    /\ Sigue(i, [th EXCEPT !.k = th.k + 1,
                                           !.leido = SetToSeq(DOMAIN store.exps)])
                    /\ last' = [NoOp EXCEPT !.op = "call"]
                    /\ UNCHANGED <<gastos, active_operations>>
               ELSE /\ gastos' = CargarGastosWalk(store, th.leido, 3, NoFault, <<>>).gastos
                    /\ last' = [NoOp EXCEPT !.op = "refresh"]
                    /\ Fin(i, FALSE)
                    /\ UNCHANGED amigos
       /\ UNCHANGED <<store, pending, faults, payments, edits, idle>>

SyncRefresh == \E i \in 1..Len(threads) : SyncRefreshStep(i)

NextSync == SyncDispatch \/ SyncAddAmigo \/ SyncAddGasto \/ SyncRefresh

SpecSync == Init /\ [][NextSync]_vars

(***************************************************************************)
(* Edits with any amount and any set of ticked participants                *)
(***************************************************************************)
\* What the edit dialog can send: any text float() accepts as the amount,
\* and the participants ticked, possibly none.
ShapeEditInputs ==
    [descripcion : {"d1"}, monto : {24, 0, -12}, fecha : {Today},
     participantes_ids : {<<1, 2>>, <<>>}, pagador_id : {None}]

ShapeRefresh ==
    Refresh(NoFault) /\ UNCHANGED <<payments, edits, threads, idle, active_operations>>

ShapeAddGasto ==
    /\ \E x \in EditExpenseInputs :
          AddGasto(x.monto, x.pagador_id, x.deudores_ids, NoFault, TRUE)
    /\ UNCHANGED <<payments, edits, threads, idle, active_operations>>

ShapeActualizarGasto ==
    /\ \E gasto_id \in GastoIds, datos \in ShapeEditInputs :
          ActualizarGasto(gasto_id, datos, NoFault)
    /\ UNCHANGED <<threads, idle, active_operations>>

NextShape == ShapeRefresh \/ ShapeAddGasto \/ ShapeActualizarGasto

SpecShape == Init /\ [][NextShape]_vars

(***************************************************************************)
(* Create Expense                                                          *)
(***************************************************************************)
Created == last.op = "add_gasto" /\ last.ok

Share(credit, debit) == [credit_balance |-> credit, debit_balance |-> debit]

\* C1: after a successful creation whose payer is one of the n participants,
\* the payer's share has credit = amount - amount/n and no debit, and every
\* other participant's share has debit = amount/n and no credit.
C1_PayerAmongParticipants ==
    (Created /\ last.pagador_id \in Range(last.deudores_ids)) =>
        LET n == Len(last.deudores_ids)
        IN /\ StoreShare(store, last.id, last.pagador_id)
                = Share(last.monto - last.monto \div n, 0)
           /\ \A d \in Range(last.deudores_ids) \ {last.pagador_id} :
                StoreShare(store, last.id, d) = Share(0, last.monto \div n)

C1_Witness ==
    /\ Created
    /\ last.pagador_id \in Range(last.deudores_ids)
    /\ Len(last.deudores_ids) = 3

\* C2: after a successful creation whose payer is not one of the n
\* participants, the payer has a share link with credit = amount and no debit,
\* and each of the n participants has debit = amount/n and no credit.
C2_PayerNotParticipant ==
    (Created /\ last.pagador_id \notin Range(last.deudores_ids)) =>
        LET n == Len(last.deudores_ids)
        IN /\ HasLink(store, last.id, last.pagador_id)
           /\ StoreShare(store, last.id, last.pagador_id) = Share(last.monto, 0)
           /\ Len(StoreParticipants(store, last.id)) = n + 1
           /\ \A d \in Range(last.deudores_ids) :
                StoreShare(store, last.id, d) = Share(0, last.monto \div n)

C2_Witness ==
    /\ Created
    /\ last.pagador_id \notin Range(last.deudores_ids)
    /\ Len(last.deudores_ids) = 2

\* A creation that failed on a store call issued after the base expense
\* record was persisted.
FailedAfterPost == last.op = "add_gasto" /\ ~last.ok /\ last.failed >= 2

\* C3: whenever a store call issued after the base expense was persisted
\* fails, a deleteExpense for the new expense is issued before the error
\* reaches the caller, and the expense is gone from the store when that
\* delete succeeds.
C3_CompensatingDelete ==
    FailedAfterPost =>
        /\ last.rollback
        /\ last.rollbackOk => ~HasExpense(store, last.id)

\* C4: a failed creation leaves self.gastos as it was; the new expense is
\* appended only by a creation all of whose store calls succeeded.
C4_GastosUnchangedOnFailure ==
    [][last'.op = "add_gasto" =>
          IF last'.ok
          THEN /\ last'.failed = 0
               /\ Len(gastos') = Len(gastos) + 1
               /\ SubSeq(gastos', 1, Len(gastos)) = gastos
               /\ gastos'[Len(gastos')].id = last'.id
               /\ gastos'[Len(gastos')].pagador_id = last'.pagador_id
          ELSE gastos' = gastos]_vars

C4_Witness == FailedAfterPost /\ HasExpense(store, last.id) /\ last.id \notin GastoIds

(***************************************************************************)
(* Pay Balance                                                             *)
(***************************************************************************)
\* A payment that fetched the person's shares (last.shares, in store order).
Paid == last.op = "pagar_saldo" /\ last.failed # 1

\* The walk was cut short by a connection error or timeout on a share write.
PayAborted == ~last.ok /\ last.error # "MsgLoad"

Outstanding(g) ==
    IF g.debit_balance > g.credit_balance THEN g.debit_balance - g.credit_balance ELSE 0

TotalOutstanding(sh) == SumSeq([i \in 1..Len(sh) |-> Outstanding(sh[i])])

Credited(lg, k) == SumSeq([l \in 1..k |-> lg[l].amount])

\* C5: the shares are served in store order with remaining = amount: every
\* credit issued is min(remaining, debt) > 0 on a share with debt > 0, a share
\* is credited only after every earlier indebted share got its full debt, and
\* an accepted credit raises that share's credit by exactly that amount.
C5_OldestFirst ==
    Paid =>
        LET sh == last.shares
            lg == last.log
        IN /\ \A k \in 1..Len(lg) :
                \E i \in 1..Len(sh) :
                    /\ sh[i].id = lg[k].e
                    /\ lg[k].p = last.amigo_id
                    /\ Outstanding(sh[i]) > 0
                    /\ lg[k].amount > 0
                    /\ lg[k].amount = Min(last.monto - Credited(lg, k - 1), Outstanding(sh[i]))
                    /\ \A j \in 1..(i - 1) :
                          Outstanding(sh[j]) > 0 =>
                              \E l \in 1..(k - 1) :
                                  lg[l].e = sh[j].id /\ lg[l].amount = Outstanding(sh[j])
                    /\ last.failed = 0 =>
                          StoreShare(store, sh[i].id, last.amigo_id)
                              = Share(sh[i].credit_balance + lg[k].amount, sh[i].debit_balance)
           /\ ~PayAborted =>
                \A i \in 1..Len(sh) :
                    (Outstanding(sh[i]) > 0
                        /\ TotalOutstanding(SubSeq(sh, 1, i - 1)) < last.monto)
                    => \E k \in 1..Len(lg) : lg[k].e = sh[i].id

\* Debts 6 and 12, oldest first, paying 10: credits 6 then 4.
C5_Witness ==
    /\ Paid /\ last.ok /\ last.monto = 10
    /\ Len(last.log) = 2
    /\ last.log[1].amount = 6 /\ last.log[2].amount = 4
    /\ last.log[1].e < last.log[2].e

Overpaid ==
    last.op = "pagar_saldo" /\ last.failed = 0 /\ last.monto > TotalOutstanding(last.shares)

Settled(S, p) == Abs(StorePerson(S, p).credit_balance - StorePerson(S, p).debit_balance) * 100 < 1

DeleteIssued == \E k \in 1..Len(last.log) : last.log[k].op = "deletePerson"

\* C8: the delete-friend operation decides on the balance the store holds
\* when it is asked: with no transport failure, the person leaves the store
\* and self.amigos exactly when that balance satisfies |credit - debit| < 0.01;
\* otherwise the operation fails with the pending-balance error, issues no
\* deletePerson call and leaves the store and self.amigos as they were.
C8_DeleteOnStoreBalance ==
    [][(last'.op = "eliminar_amigo" /\ faults' = faults) =>
          IF Settled(store, last'.amigo_id)
          THEN /\ last'.ok
               /\ DeleteIssued'
               /\ last'.amigo_id \notin store'.friends
               /\ amigos' = SelectSeq(amigos, LAMBDA a : a.id # last'.amigo_id)
               /\ last'.amigo_id \notin AmigoIds'
          ELSE /\ ~last'.ok
               /\ last'.error = "MsgPendingBalance"
               /\ ~DeleteIssued'
               /\ store' = store
               /\ amigos' = amigos]_vars

\* The store holds a pending balance while the copy in self.amigos is settled:
\* the person is not deleted.
C8_Witness ==
    /\ last.op = "eliminar_amigo" /\ ~last.ok /\ last.error = "MsgPendingBalance"
    /\ last.amigo_id \in AmigoIds
    /\ SaldoLocal(store, amigos, last.amigo_id) = 0
    /\ ~Settled(store, last.amigo_id)

(***************************************************************************)
(* Edit Expense                                                            *)
(***************************************************************************)
\* The edit just made: update_gasto completed and none of its store calls failed.
Edited == last.op = "update_gasto" /\ last.ok /\ last.rejected = 0

GastoActual(e) == gastos[GastoIndex(gastos, e)]

\* C9: an edit that changes only the amount of an expense whose payer is one
\* of its n unchanged participants leaves the payer's share with credit
\* new_amount - new_amount/n and every other participant's share with debit
\* new_amount/n.
C9_AmountOnlyEdit ==
    [][(/\ Edited' /\ faults' = faults
        /\ GastoActual(last'.id).pagador_id \in Range(last'.deudores_ids)
        /\ Range(StoreParticipants(store, last'.id)) = Range(last'.deudores_ids)
        /\ GastoActual(last'.id).monto # last'.monto)
       => \A p \in Range(last'.deudores_ids) :
             IF p = GastoActual(last'.id).pagador_id
             THEN StoreShare(store', last'.id, p).credit_balance
                     = last'.monto - (last'.monto \div Len(last'.deudores_ids))
             ELSE StoreShare(store', last'.id, p).debit_balance
                     = last'.monto \div Len(last'.deudores_ids)]_vars

\* C10: after an edit that changes the amount or the participants of an
\* expense whose payer is not in the new participant set, the payer's share
\* has credit equal to the full new amount and each of the n new participants
\* owes new_amount/n.
C10_PayerOutsideNewSet ==
    [][(/\ Edited' /\ faults' = faults
        /\ GastoActual(last'.id).pagador_id # None
        /\ GastoActual(last'.id).pagador_id \notin Range(last'.deudores_ids))
       => /\ HasLink(store', last'.id, GastoActual(last'.id).pagador_id)
          /\ StoreShare(store', last'.id, GastoActual(last'.id).pagador_id).credit_balance
                = last'.monto
          /\ \A p \in Range(last'.deudores_ids) :
                StoreShare(store', last'.id, p).debit_balance
                   = last'.monto \div Len(last'.deudores_ids)]_vars

\* C11: every edit of an expense of self.gastos whose store calls all succeed
\* completes without error and leaves the in-memory expense's description,
\* amount, date and participant set equal to the requested values, also when
\* only the description or the date changes.
C11_EditCompletes ==
    [][(/\ last'.op = "update_gasto" /\ faults' = faults
        /\ last'.failed = 0 /\ last'.rejected = 0
        /\ last'.id \in GastoIds)
       => /\ last'.ok
          /\ gastos'[GastoIndex(gastos', last'.id)].descripcion = last'.descripcion
          /\ gastos'[GastoIndex(gastos', last'.id)].monto = last'.monto
          /\ gastos'[GastoIndex(gastos', last'.id)].fecha = last'.fecha
          /\ Range(gastos'[GastoIndex(gastos', last'.id)].deudores_ids) = Range(last'.deudores_ids)]_vars

(***************************************************************************)
(* Bulk delete friends                                                     *)
(***************************************************************************)
ErrorIds == {last.errores[i].id : i \in 1..Len(last.errores)}

\* C12: the bulk deletion of friends tries every person of self.amigos exactly
\* once, in order, whatever fails; eliminados + number of errors = total = the
\* number of persons at the start; a person whose deletion failed is named in
\* errores and is still in self.amigos; a person whose deletion succeeded is
\* gone from self.amigos and from the store.
C12_BulkFriendsNeverAborts ==
    [][last'.op = "borrar_todos_amigos" =>
          /\ last'.log = [i \in 1..Len(amigos) |-> CallDeletePerson(amigos[i].id)]
          /\ last'.total = Len(amigos)
          /\ last'.eliminados + Len(last'.errores) = last'.total
          /\ ErrorIds' \subseteq AmigoIds
          /\ AmigoIds' = ErrorIds'
          /\ \A p \in AmigoIds \ ErrorIds' : p \notin store'.friends
          /\ \A p \in ErrorIds' : p \in store'.friends]_vars

\* One of three persons has a pending balance: 2 of 3 deleted, one failure.
C12_Witness ==
    /\ last.op = "borrar_todos_amigos"
    /\ last.eliminados = 2 /\ last.total = 3 /\ Len(last.errores) = 1
    /\ last.errores[1].error = "MsgConflict"
    /\ last.errores[1].id = 1

ErrorOf(p) == last.errores[CHOOSE i \in 1..Len(last.errores) : last.errores[i].id = p].error

\* Deleted by the bulk operation exactly when the balance the store holds is settled.
BulkDeletesSettledOnly ==
    [][(last'.op = "borrar_todos_amigos" /\ faults' = faults) =>
          \A p \in AmigoIds \cap store.friends :
              p \notin store'.friends <=> Settled(store, p)]_vars

\* C13: the bulk deletion of friends applies the rule of the single deletion
\* to each person: the person's balance is fetched from the store, the person
\* is deleted exactly when |credit - debit| < 0.01, and otherwise no
\* deletePerson call is issued for that person and the failure reported is
\* the pending-balance error.
C13_BulkAppliesSingleRule ==
    [][(last'.op = "borrar_todos_amigos" /\ faults' = faults) =>
          \A p \in AmigoIds \cap store.friends :
              /\ p \notin store'.friends <=> Settled(store, p)
              /\ ~Settled(store, p) =>
                    /\ \A k \in 1..Len(last'.log) : last'.log[k] # CallDeletePerson(p)
                    /\ p \in ErrorIds'
                    /\ ErrorOf(p)' = "MsgPendingBalance"]_vars

(***************************************************************************)
(* Bulk delete expenses                                                    *)
(***************************************************************************)
\* C14: with self.gastos empty the bulk deletion of expenses fails with the
\* nothing-to-delete message and issues no store call; with self.gastos not
\* empty and every DELETE succeeding it returns the number of expenses held
\* at the start, and self.gastos is empty afterwards.
C14_BulkExpenses ==
    [][last'.op = "borrar_todos_gastos" =>
          IF gastos = <<>>
          THEN /\ ~last'.ok /\ last'.error = "MsgNothingToDelete"
               /\ last'.log = <<>>
               /\ store' = store /\ gastos' = gastos /\ amigos' = amigos
          ELSE (faults' = faults /\ last'.failed = 0) =>
                  /\ last'.ok
                  /\ last'.eliminados = Len(gastos)
                  /\ gastos' = <<>>
                  /\ \A i \in 1..Len(gastos) : ~HasExpense(store', gastos[i].id)]_vars

C14_Witness ==
    /\ last.op = "borrar_todos_gastos" /\ last.ok
    /\ last.eliminados = 2 /\ last.total = 2
    /\ Len(last.log) = 2
    /\ gastos = <<>>

NothingToDeleteReached ==
    last.op = "borrar_todos_gastos" /\ last.error = "MsgNothingToDelete" /\ DOMAIN store.exps # {}

\* C15: when the DELETE of one expense fails, the bulk deletion of expenses
\* still issues the DELETE of every remaining expense and completes with the
\* failure aggregated into its result.
C15_BulkExpensesAggregates ==
    [][(last'.op = "borrar_todos_gastos" /\ gastos # <<>>) =>
          /\ last'.log = [i \in 1..Len(gastos) |-> CallDeleteExpense(gastos[i].id)]
          /\ last'.ok]_vars

(***************************************************************************)
(* Local validation                                                        *)
(***************************************************************************)
InvalidAmount(s) == ~ParseFloat(s).ok \/ ParseFloat(s).value <= 0

\* The operation ended on the main thread: no worker, no store call, and
\* the store and the in-memory lists are as before.
NoSideEffects ==
    /\ ~last'.worker
    /\ last'.log = <<>>
    /\ ~last'.ok
    /\ ~pending'
    /\ UNCHANGED <<store, amigos, gastos, faults>>

\* C16: creating an expense with an amount text that does not parse or is not
\* positive fails with the invalid-amount error, and with a valid amount and
\* no participant it fails with the no-participants error; in both cases no
\* store call is issued, no worker is started and the store, self.amigos and
\* self.gastos are unchanged.
C16_CreateValidatesLocally ==
    [][\A s \in MontoStrs, x \in InputExpenseInputs :
          RealizarAddGasto(s, x.pagador_id, x.deudores_ids, NoFault, TRUE) =>
             /\ InvalidAmount(s) =>
                   /\ last'.error \in {"MsgInvalidNumber", "MsgAmountPositive"}
                   /\ NoSideEffects
             /\ (~InvalidAmount(s) /\ x.deudores_ids = <<>>) =>
                   /\ last'.error = "MsgNoParticipants"
                   /\ NoSideEffects]_vars

\* An expense with no participant was refused while the store holds data.
C16_Witness ==
    /\ last.op = "add_gasto" /\ ~last.ok /\ ~last.worker
    /\ last.error = "MsgNoParticipants"
    /\ store.nextId > 1

\* C17: paying with an amount text that is empty, does not parse or is not
\* positive fails with the invalid-amount error before any store call: no
\* worker is started and no share, person or in-memory list changes.
C17_PayValidatesLocally ==
    [][\A a \in People, s \in ImporteStrs :
          (PagarSaldoImporte(a, s, NoFault) /\ (Strip(s) = "" \/ InvalidAmount(s))) =>
             /\ last'.error \in {"MsgEnterAmount", "MsgInvalidNumber", "MsgAmountPositive"}
             /\ NoSideEffects
             /\ payments' = payments]_vars

\* A payment of a non-positive amount was refused while the person owes money.
C17_Witness ==
    /\ last.op = "pagar_saldo" /\ ~last.ok /\ ~last.worker
    /\ last.error = "MsgAmountPositive"
    /\ \E i \in 1..Len(amigos) : amigos[i].debit_balance > amigos[i].credit_balance

(***************************************************************************)
(* Edit Expense: unknown expense, fetch-for-edit                           *)
(***************************************************************************)
\* C18: applying an edit to an expense id that is not in self.gastos fails
\* with the expense-not-found error, issues no store call and leaves
\* self.gastos, self.amigos and the store unchanged.
C18_EditUnknownExpense ==
    [][(last'.op = "update_gasto" /\ last'.id \notin GastoIds) =>
          /\ ~last'.ok
          /\ last'.error = "MsgExpenseNotFound"
          /\ last'.log = <<>>
          /\ UNCHANGED <<store, gastos, amigos>>]_vars

\* The store holds the expense (left there by a failed creation) while
\* self.gastos does not.
C18_Witness ==
    /\ last.op = "update_gasto" /\ last.error = "MsgExpenseNotFound"
    /\ HasExpense(store, last.id)
    /\ last.id \notin GastoIds
    /\ gastos # <<>>

ReadOnlyCalls == {"listParticipants"}

\* C19: editing without a payload (fetch-for-edit) only reads: the only store
\* call it issues is the participant listing, and the store, self.amigos and
\* self.gastos are unchanged.
C19_FetchForEditReadsOnly ==
    [][last'.op = "editar_gasto" =>
          /\ \A k \in 1..Len(last'.log) : last'.log[k].op \in ReadOnlyCalls
          /\ Len(last'.log) <= 1
          /\ UNCHANGED <<store, gastos, amigos>>]_vars

C19_Witness ==
    /\ last.op = "editar_gasto" /\ last.ok
    /\ last.log = <<CallListParticipants(last.id)>>
    /\ last.deudores_ids = StoreParticipants(store, last.id)
    /\ Len(last.deudores_ids) = 3

(***************************************************************************)
(* Serialization of the operations                                         *)
(***************************************************************************)
\* C20: at most one operation (settlement or refresh) handed to execute_async
\* is executing against the in-memory lists at any time.
C20_Serialized == Len(threads) <= 1

\* A worker has been started and its operation has not ended yet.
EnCurso == threads # <<>>

\* Operations whose calls all pass the timeout end whatever call goes unanswered.
ConTimeoutTermina ==
    (EnCurso /\ threads[1].op \in {"refresh", "pagar_saldo"}) ~> ~EnCurso

\* C21: every store call carries the request timeout, so an operation that
\* was started always ends, with success or with an error, even when the
\* store stops answering one of its calls.
C21_EveryOperationTerminates == EnCurso ~> ~EnCurso

\* C22: a creation that fails after the base expense was persisted reports
\* the kind of the failure: connection failure, timeout or remote rejection
\* reach the caller as three different errors.
C22_TypedErrors == FailedAfterPost => last.error = OuterMessage(last.exc)

C24_PersonRoundTrip ==
    \A i \in 1..Len(amigos) : amigo_from_dict(to_dict(amigos[i])) = amigos[i]

\* C25: split of an expense is its amount divided by the number of its
\* participants (0 without participants): once a created expense has been
\* loaded by the refresh, its split is the amount over the participants it
\* was created with.
C25_SplitEven ==
    [][(Created /\ last'.op = "refresh" /\ last'.ok) =>
          split(gastos'[GastoIndex(gastos', last.id)])
              = (IF last.deudores_ids = <<>> THEN 0
                 ELSE last.monto \div Len(last.deudores_ids))]_vars

\* C26: when the amount paid is greater than the person's total debt, the
\* excess is applied as additional credit of that person: the person's credit
\* in the store grows by the whole amount.
C26_ExcessCredited ==
    [][(Overpaid' /\ last'.ok) =>
          StorePerson(store', last'.amigo_id).credit_balance
              = StorePerson(store, last'.amigo_id).credit_balance + last'.monto]_vars

(***************************************************************************)
(* Apply edit: participant diff                                            *)
(***************************************************************************)
\* An edit that got past the GET of the participants and the PUT of the expense.
EditApplied ==
    last.op = "update_gasto" /\ last.failed = 0 /\ last.error # "MsgExpenseNotFound"

\* The positions of the calls of kind op in the log of the last operation.
LogAt(op) == {k \in 1..Len(last.log) : last.log[k].op = op}

\* C27: an edit issues removeParticipant exactly once for each id of current
\* minus requested and addParticipant exactly once for each id of requested
\* minus current, and for no other id; when one of these calls fails the
\* others are still issued, the shares of all requested participants are
\* still recomputed, the edit succeeds and the expense keeps its new values.
C27_ParticipantDiff ==
    [][EditApplied' =>
          LET cur == Range(StoreParticipants(store, last'.id))
              req == Range(last'.deudores_ids)
          IN /\ {last'.log[k].p : k \in LogAt("removeParticipant")'} = cur \ req
             /\ {last'.log[k].p : k \in LogAt("addParticipant")'} = req \ cur
             /\ Cardinality(LogAt("removeParticipant")') = Cardinality(cur \ req)
             /\ Cardinality(LogAt("addParticipant")') = Cardinality(req \ cur)
             /\ \A k \in LogAt("removeParticipant")', l \in LogAt("addParticipant")' : k < l
             /\ cur # req =>
                   /\ last'.ok
                   /\ {last'.log[k].p : k \in LogAt("setParticipantShare")'} = req
                   /\ \A k \in LogAt("addParticipant")', l \in LogAt("setParticipantShare")' :
                         k < l
                   /\ HasExpense(store', last'.id)
                   /\ store'.exps[last'.id].amount = last'.monto]_vars

\* An edit whose removal failed: the link is still there, the addition and
\* the recomputation were issued all the same.
C27_Witness ==
    /\ EditApplied /\ last.ok /\ last.rejected > 0
    /\ \E k \in LogAt("removeParticipant") : HasLink(store, last.id, last.log[k].p)
    /\ \E l \in LogAt("addParticipant") : HasLink(store, last.id, last.log[l].p)
    /\ LogAt("setParticipantShare") # {}

(***************************************************************************)
(* Apply edit: payer                                                       *)
(***************************************************************************)
\* The positions, in the store's participant order, of the shares of expense
\* e with positive credit.
ConCredito(S, e) ==
    {i \in 1..Len(StoreParticipants(S, e)) :
        StoreShare(S, e, StoreParticipants(S, e)[i]).credit_balance > 0}

PrimerConCredito(S, e) ==
    IF ConCredito(S, e) = {} THEN None
    ELSE StoreParticipants(S, e)[CHOOSE i \in ConCredito(S, e) :
                                    \A j \in ConCredito(S, e) : i <= j]

C29_ParticipantsFailureNotCritical ==
    [][(last'.op = "refresh" /\ last'.failed >= 3) =>
          /\ last'.ok
          /\ {gastos'[i].id : i \in 1..Len(gastos')} = DOMAIN store.exps]_vars

\* The worker of the execute_async call t has come out of func.
Terminado(t) ==
    \E i \in 1..Len(threads) : threads[i].tid = t /\ threads[i].pc \in {"returned", "raised"}

PcDe(t) == threads[CHOOSE i \in 1..Len(threads) : threads[i].tid = t].pc

\* The callbacks of the execute_async call t waiting in the main loop.
EnCola(Q, t) == SelectSeq(Q, LAMBDA e : e.tid = t)

\* C30: for every execute_async call given both callbacks, once func has
\* ended exactly one callback is scheduled on the main loop, callback if func
\* returned and error_callback if func raised, never both; a callback is
\* scheduled only by a worker whose func has ended, and callbacks run only
\* when the main loop takes them from its queue, never on the worker.
C30_ExactlyOneCallback ==
    /\ [][\A t \in 1..MaxThreads :
            /\ (Terminado(t) /\ ~Terminado(t)') =>
                  /\ Len(EnCola(idle', t)) = 1
                  /\ EnCola(idle', t)[1].cb =
                        (IF PcDe(t) = "returned" THEN "callback" ELSE "error_callback")
            /\ (EnCola(idle, t) = <<>> /\ EnCola(idle', t) # <<>>) => Terminado(t)
            /\ Len(EnCola(idle', t)) <= 1
            /\ last'.op \in {"callback", "error_callback"} =>
                  /\ idle # <<>>
                  /\ idle' = Tail(idle)
                  /\ last'.op = Head(idle).cb]_vars
    /\ \A t \in 1..MaxThreads : Terminado(t) ~> (EnCola(idle, t) # <<>>)

\* Both callbacks have been scheduled, by two workers: one whose func
\* returned and one whose func raised.
C30_Witness ==
    /\ \E j \in 1..Len(idle) : idle[j].cb = "callback"
    /\ \E j \in 1..Len(idle) : idle[j].cb = "error_callback"

\* C31: active_operations is the number of execute_async workers that have
\* started and not yet finished, it is never negative, and
\* has_active_operations() is true exactly while such a worker exists.
C31_ActiveOperations ==
    /\ active_operations = Len(threads)
    /\ active_operations >= 0
    /\ has_active_operations <=> threads # <<>>

\* The sum over all people of credit - debit, as the store records them.
NetTotal(S) ==
    SumSeq([i \in 1..Len(StoreListPeople(S)) |->
               saldo(amigo_from_dict(StoreListPeople(S)[i]))])

\* C32: in every state reached by successful creations and payments the net
\* balances of all people sum to zero.
C32_ZeroSumUnderPayments == faults = 0 => NetTotal(store) = 0

\* C33: whenever a payment returns success, what it took off the amount
\* (amount minus the final remaining) is the credit the store added to the
\* shares of the paying person.
C33_ConsumesOnlyRecorded ==
    [][(last'.op = "pagar_saldo" /\ last'.ok) =>
          last'.monto - last'.restante =
              StorePerson(store', last'.amigo_id).credit_balance
                  - StorePerson(store, last'.amigo_id).credit_balance]_vars

\* C34: under every interleaving of the workers, a person leaves the store or
\* the in-memory list through Delete Person only in a step in which the store
\* records a zero balance for them; a creation that runs between the test of
\* the balance and the delete does not get a person with a balance deleted.
C34_NoDeleteWithBalance ==
    [][\A p \in People :
          (\/ p \in store.friends /\ p \notin store'.friends
           \/ last'.op = "eliminar_amigo" /\ p \in AmigoIds /\ p \notin AmigoIds') =>
              /\ p \in store.friends
              /\ SaldoEsCero(SaldoParaEliminar(store, amigos, p))]_vars

\* The worker read a zero balance, a creation gave the person a debit, and
\* the store answered the delete with Conflict.
C34_Witness ==
    /\ last.op = "eliminar_amigo"
    /\ ~last.ok /\ last.error = "MsgConflict"
    /\ SaldoEsCero(last.saldo)
    /\ last.amigo_id \in store.friends
    /\ last.amigo_id \in AmigoIds

\* No worker is running and no callback is waiting.
EnReposo == threads = <<>> /\ idle = <<>>

\* C35: once every operation in flight and its callbacks have completed, the
\* in-memory lists hold the people and the expenses of the store (same ids).
C35_ListsMatchStore ==
    (EnReposo /\ last.op # "init") =>
        /\ AmigoIds = store.friends
        /\ GastoIds = DOMAIN store.exps

\* C36: add_gasto puts the given payer on the in-memory expense, and every
\* refresh of the expense list after successful creations and payments leaves
\* each expense with the payer it had: the payer given at its creation.
C36_PayerKept ==
    [][(last'.op = "refresh" /\ last'.ok /\ faults = 0) =>
          \A i \in 1..Len(gastos), j \in 1..Len(gastos') :
              gastos[i].id = gastos'[j].id =>
                  gastos'[j].pagador_id = gastos[i].pagador_id]_vars

\* C37: every expense has an amount > 0, in the store and in memory, in every
\* state reached by creations and edits.
C37_AmountPositive ==
    /\ \A e \in DOMAIN store.exps : store.exps[e].amount > 0
    /\ \A i \in 1..Len(gastos) : gastos[i].monto > 0

\* C38: every expense of the store has at least one participant share link
\* in every state reached by creations and edits.
C38_ParticipantsNonEmpty ==
    \A e \in DOMAIN store.exps : StoreParticipants(store, e) # <<>>

\* The shares of expense e in the store.
SharesOf(S, e) == [i \in 1..Len(S.links[e]) |-> S.links[e][i]]

\* C39: immediately after a successful creation the shares of the new expense
\* are zero-sum: the payer's credit is the sum of the debits of all the other
\* share holders (amount - amount/n when the payer takes part, the amount
\* when it does not), the payer has no debit and the others no credit.
C39_SharesZeroSum ==
    Created =>
        LET sh == SharesOf(store, last.id)
            n == Len(last.deudores_ids)
            otros == SelectSeq(sh, LAMBDA l : l.friend # last.pagador_id)
            pagador == StoreShare(store, last.id, last.pagador_id)
        IN /\ HasLink(store, last.id, last.pagador_id)
           /\ pagador.credit_balance
                = SumSeq([i \in 1..Len(otros) |-> otros[i].debit_balance])
           /\ pagador.credit_balance
                = (IF last.pagador_id \in Range(last.deudores_ids)
                   THEN last.monto - last.monto \div n ELSE last.monto)
           /\ pagador.debit_balance = 0
           /\ \A i \in 1..Len(otros) : otros[i].credit_balance = 0
           /\ SumSeq([i \in 1..Len(sh) |-> sh[i].credit_balance - sh[i].debit_balance]) = 0

\* A second expense has been created, its payer taking no part in it.
C39_Witness ==
    /\ Created
    /\ last.id > 1
    /\ last.pagador_id \notin Range(last.deudores_ids)
    /\ Len(SharesOf(store, last.id)) > Len(last.deudores_ids)

\* The amounts of two payments made one after the other.
SplitAmounts == {4, 10}

\* The result of person p paying a and then b, and of p paying a + b once.
PagaDos(p, a, b) ==
    LET r == pagar_saldo(store, amigos, p, a, NoFault)
    IN pagar_saldo(r.store, r.amigos, p, b, NoFault)

PagaUna(p, a, b) == pagar_saldo(store, amigos, p, a + b, NoFault)

\* Expenses and payments that all reach the store.
SplitRefresh == Refresh(NoFault) /\ UNCHANGED <<payments, edits, threads, idle, active_operations>>

SplitAddGasto ==
    /\ \E x \in PayExpenseInputs :
          AddGasto(x.monto, x.pagador_id, x.deudores_ids, NoFault, TRUE)
    /\ UNCHANGED <<payments, edits, threads, idle, active_operations>>

SplitPagarSaldo ==
    /\ \E a \in People, importe \in SplitAmounts : PagarSaldo(a, importe, NoFault)
    /\ UNCHANGED <<threads, idle, active_operations>>

NextSplit == SplitRefresh \/ SplitAddGasto \/ SplitPagarSaldo

SpecSplit == Init /\ [][NextSplit]_vars

\* C40: from the same shares, a payment of a followed by a payment of b by
\* the same person leaves every share of the store as one payment of a + b.
C40_PaymentsAdditive ==
    \A p \in People, a \in SplitAmounts, b \in SplitAmounts :
        LET dos == PagaDos(p, a, b)
            una == PagaUna(p, a, b)
        IN /\ dos.store = una.store
           /\ dos.amigos = una.amigos

\* A person owes on two expenses; the first payment settles one share and
\* part of the next, the second goes on with the share left partly paid.
C40_Witness ==
    \E p \in People, a \in SplitAmounts, b \in SplitAmounts :
        LET r == pagar_saldo(store, amigos, p, a, NoFault)
        IN /\ last.op = "pagar_saldo"
           /\ last.ok
           /\ Len(r.log) > 1
           /\ PagaDos(p, a, b).log # <<>>
           /\ PagaDos(p, a, b).log[1].e = r.log[Len(r.log)].e
           /\ PagaDos(p, a, b).restante = 0

====
